---------------------------- MODULE Spec2Model ----------------------------
(***************************************************************************)
(* A model of the cruciverbal crossword core: the word-placement generator *)
(* (core/src/generator.rs) with the Grid / Clue / Crossword types it       *)
(* builds on, and the clue-numbering indexer PuzzleGrid::from_solution     *)
(* (tui/src/views/game/grid.rs).                                           *)
(*                                                                         *)
(* Rust strings are modelled as sequences of characters; every character   *)
(* carries its UTF-8 width, because String::len() counts bytes while       *)
(* chars() walks code points.  Coordinates are 0-based as in the source.   *)
(***************************************************************************)
EXTENDS Integers, Sequences, FiniteSets, TLC

VARIABLES
    gen,        \* the CrosswordGenerator object (all its fields)
    seed,       \* DefaultHasher::finish() of the dimensions, modulo 100
    pc,         \* position inside new / add_words / generate
    attempt,    \* loop variable of generate
    slots,      \* the slot list of the running attempt
    stack,      \* the frames of backtrack that are live
    ret,        \* the value the last backtrack call returned
    result,     \* what generate handed to its caller
    words_in,   \* the pairs the caller passed to add_words
    solution,   \* from_solution: the rows given
    idx,        \* from_solution: across_clue_at / down_clue_at after pass 1
    pgrid,      \* from_solution: the PuzzleGrid built by pass 2
    ipc,        \* from_solution: position
    puzzle,     \* a Crossword in the hands of a caller
    last_call,  \* the last call on puzzle: arguments, result, puzzle before it
    ncalls      \* how many calls besides is_complete were made on puzzle

vars == <<gen, seed, pc, attempt, slots, stack, ret, result, words_in,
          solution, idx, pgrid, ipc, puzzle, last_call, ncalls>>

genVars == <<gen, seed, pc, attempt, slots, stack, ret, result, words_in>>
idxVars == <<solution, idx, pgrid, ipc>>
apiVars == <<puzzle, last_call, ncalls>>

----------------------------------------------------------------------------
(* Option<T> *)

None == <<>>
Some(x) == <<x>>

----------------------------------------------------------------------------
(* Characters and strings *)

\* The characters of the model: ASCII upper and lower case letters, a digit,
\* a two-byte letter in both cases, and a three-byte letter without case
\* (written "zh" here; U+4E2D is one).
Chars == {"A", "B", "a", "b", "1", "e'", "E'", "zh"}

\* char::len_utf8
len_utf8(c) == IF c \in {"e'", "E'"} THEN 2 ELSE IF c = "zh" THEN 3 ELSE 1

\* char::is_alphabetic
is_alphabetic(c) == c # "1"

\* char::to_uppercase
char_to_uppercase(c) ==
    CASE c = "a" -> "A"
      [] c = "b" -> "B"
      [] c = "e'" -> "E'"
      [] OTHER -> c

\* The code point, which orders characters as the UTF-8 bytes do.
code_point(c) ==
    CASE c = "1" -> 49
      [] c = "A" -> 65
      [] c = "B" -> 66
      [] c = "a" -> 97
      [] c = "b" -> 98
      [] c = "E'" -> 201
      [] c = "e'" -> 233
      [] c = "zh" -> 20013

\* String::len: the number of bytes
RECURSIVE str_len(_)
str_len(s) == IF s = <<>> THEN 0 ELSE len_utf8(Head(s)) + str_len(Tail(s))

\* str::chars().count()
chars_count(s) == Len(s)

\* str::chars().nth(i), i counted from 0
chars_nth(s, i) == IF i < Len(s) THEN Some(s[i + 1]) ELSE None

\* str::to_uppercase
to_uppercase(s) == [i \in 1..Len(s) |-> char_to_uppercase(s[i])]

\* Ord for str: lexicographic on the bytes; -1, 0, 1 for Less, Equal, Greater
RECURSIVE str_cmp(_, _)
str_cmp(a, b) ==
    IF a = <<>> /\ b = <<>> THEN 0
    ELSE IF a = <<>> THEN -1
    ELSE IF b = <<>> THEN 1
    ELSE IF code_point(Head(a)) < code_point(Head(b)) THEN -1
    ELSE IF code_point(Head(a)) > code_point(Head(b)) THEN 1
    ELSE str_cmp(Tail(a), Tail(b))

\* The three comparators the generator sorts with, as "a need not move behind b"
\* (the comparator does not return Greater):
\*   word_list.sort_by(|a, b| b.len().cmp(&a.len()))      add_words
\*   word_list.sort_by(|a, b| a.word.cmp(&b.word))        shuffle_words
\*   slots.sort_by(|a, b| b.length.cmp(&a.length))        find_word_slots
not_greater(order, a, b) ==
    CASE order = "entry_len_desc" -> str_len(b.word) <= str_len(a.word)
      [] order = "entry_word_asc" -> str_cmp(a.word, b.word) <= 0
      [] order = "slot_length_desc" -> b.length <= a.length

\* slice::sort_by: a stable sort
RECURSIVE insert_sorted(_, _, _)
insert_sorted(x, s, order) ==
    IF s = <<>> THEN <<x>>
    ELSE IF not_greater(order, s[Len(s)], x) THEN Append(s, x)
    ELSE Append(insert_sorted(x, SubSeq(s, 1, Len(s) - 1), order), s[Len(s)])

RECURSIVE sort_by(_, _)
sort_by(s, order) ==
    IF s = <<>> THEN <<>>
    ELSE insert_sorted(s[Len(s)], sort_by(SubSeq(s, 1, Len(s) - 1), order), order)

\* slice::reverse
reverse(s) == [i \in 1..Len(s) |-> s[Len(s) + 1 - i]]

----------------------------------------------------------------------------
(* core/src/direction.rs, core/src/grid.rs *)

Across == "Across"
Down == "Down"

\* Direction::delta
delta(d) == IF d = Across THEN <<0, 1>> ELSE <<1, 0>>

Empty == [kind |-> "Empty"]
Blocked == [kind |-> "Blocked"]
Letter(c, u, n) == [kind |-> "Letter", correct |-> c, user_input |-> u, number |-> n]

is_letter_cell(cell) == cell.kind = "Letter"

\* Grid::new
Grid_new(width, height) ==
    [width |-> width, height |-> height,
     cells |-> [p \in (0..height - 1) \X (0..width - 1) |-> Empty]]

\* Grid::get_cell
get_cell(g, row, col) ==
    IF <<row, col>> \in DOMAIN g.cells THEN Some(g.cells[<<row, col>>]) ELSE None

\* Grid::set_cell: the grid afterwards (unchanged when it returns Err)
set_cell(g, row, col, cell) ==
    IF row >= g.height \/ col >= g.width THEN g
    ELSE [g EXCEPT !.cells[<<row, col>>] = cell]

\* Grid::set_cell: what it returns
set_cell_result(g, row, col) ==
    IF row >= g.height \/ col >= g.width THEN "Err" ELSE "Ok"

\* char::to_ascii_uppercase
to_ascii_uppercase(c) ==
    CASE c = "a" -> "A"
      [] c = "b" -> "B"
      [] OTHER -> c

\* Faulty variant of set_user_input: a cell that is no Letter is passed over
\* without an error
set_user_input_silent(g, row, col, c) ==
    LET cell == get_cell(g, row, col)
    IN  IF cell # None /\ cell[1].kind = "Letter"
          THEN [res |-> "Ok",
                grid |-> [g EXCEPT !.cells[<<row, col>>].user_input =
                                        Some(to_ascii_uppercase(c))]]
          ELSE IF cell # None THEN [res |-> "Ok", grid |-> g]
          ELSE [res |-> "Err", grid |-> g]

\* Grid::set_user_input: what it returns and the grid afterwards
set_user_input(g, row, col, c) ==
    LET cell == get_cell(g, row, col)
    IN  IF cell # None /\ cell[1].kind = "Letter"
          THEN [res |-> "Ok",
                grid |-> [g EXCEPT !.cells[<<row, col>>].user_input =
                                        Some(to_ascii_uppercase(c))]]
          ELSE [res |-> "Err", grid |-> g]

\* Faulty variant of clear_user_input: the whole cell is cleared
clear_user_input_erases(g, row, col) ==
    LET cell == get_cell(g, row, col)
    IN  IF cell # None /\ cell[1].kind = "Letter"
          THEN [res |-> "Ok", grid |-> [g EXCEPT !.cells[<<row, col>>] = Empty]]
          ELSE [res |-> "Err", grid |-> g]

\* Grid::clear_user_input: what it returns and the grid afterwards
clear_user_input(g, row, col) ==
    LET cell == get_cell(g, row, col)
    IN  IF cell # None /\ cell[1].kind = "Letter"
          THEN [res |-> "Ok", grid |-> [g EXCEPT !.cells[<<row, col>>].user_input = None]]
          ELSE [res |-> "Err", grid |-> g]

\* Faulty variant of Grid::is_complete: only the inputs made are compared
Grid_is_complete_of_inputs(g) ==
    ~ \E p \in DOMAIN g.cells :
        /\ g.cells[p].kind = "Letter"
        /\ g.cells[p].user_input # None
        /\ g.cells[p].user_input # Some(g.cells[p].correct)

\* Grid::is_complete
Grid_is_complete(g) ==
    ~ \E p \in DOMAIN g.cells :
        /\ g.cells[p].kind = "Letter"
        /\ (g.cells[p].user_input = None \/ g.cells[p].user_input # Some(g.cells[p].correct))

----------------------------------------------------------------------------
(* core/src/clue.rs, core/src/crossword.rs *)

\* Clue::new
Clue_new(number, direction, text, answer, row, col) ==
    [number |-> number, direction |-> direction, text |-> text,
     answer |-> to_uppercase(answer), row |-> row, col |-> col]

\* Clue::length
length(clue) == str_len(clue.answer)

\* Clue::positions, as a sequence indexed from 1
positions(clue) ==
    [k \in 1..length(clue) |->
        <<clue.row + delta(clue.direction)[1] * (k - 1),
          clue.col + delta(clue.direction)[2] * (k - 1)>>]

\* Crossword::new
Crossword_new(width, height) == [grid |-> Grid_new(width, height), clues |-> <<>>]

\* Faulty variant of validate_clue: only the rows are compared with the grid
validate_clue_rows_only(cw, clue) ==
    /\ clue.answer # <<>>
    /\ ~ \E k \in 1..length(clue) : positions(clue)[k][1] >= cw.grid.height

\* Crossword::validate_clue: TRUE for Ok
validate_clue(cw, clue) ==
    /\ clue.answer # <<>>
    /\ ~ \E k \in 1..length(clue) :
           \/ positions(clue)[k][1] >= cw.grid.height
           \/ positions(clue)[k][2] >= cw.grid.width

\* Faulty variant of the loop of add_clue: a Letter cell keeps its number, also
\* when it has none and the clue starts there
RECURSIVE add_clue_from_as_found(_, _, _)
add_clue_from_as_found(cw, clue, i) ==
    IF i >= length(clue)
    THEN [res |-> "Ok", cw |-> [cw EXCEPT !.clues = Append(@, clue)]]
    ELSE
      LET p == positions(clue)[i + 1]
          ch == chars_nth(clue.answer, i)
          number == IF i = 0 THEN Some(clue.number) ELSE None
          cell == get_cell(cw.grid, p[1], p[2])
      IN  IF ch = None THEN [res |-> "Panic", cw |-> cw]
          ELSE IF cell = None THEN [res |-> "Err", cw |-> cw]
          ELSE IF cell[1].kind = "Empty"
            THEN add_clue_from_as_found(
                   [cw EXCEPT !.grid.cells[p] = Letter(ch[1], None, number)], clue, i + 1)
          ELSE IF cell[1].kind = "Letter"
            THEN IF cell[1].correct # ch[1] THEN [res |-> "Err", cw |-> cw]
                 ELSE add_clue_from_as_found(cw, clue, i + 1)
          ELSE [res |-> "Err", cw |-> cw]

\* Faulty variant of the loop of add_clue: a position past the last character
\* of the answer is passed over
RECURSIVE add_clue_from_passing(_, _, _)
add_clue_from_passing(cw, clue, i) ==
    IF i >= length(clue)
    THEN [res |-> "Ok", cw |-> [cw EXCEPT !.clues = Append(@, clue)]]
    ELSE
      LET p == positions(clue)[i + 1]
          ch == chars_nth(clue.answer, i)
          number == IF i = 0 THEN Some(clue.number) ELSE None
          cell == get_cell(cw.grid, p[1], p[2])
      IN  IF ch = None THEN add_clue_from_passing(cw, clue, i + 1)
          ELSE IF cell = None THEN [res |-> "Err", cw |-> cw]
          ELSE IF cell[1].kind = "Empty"
            THEN add_clue_from_passing(
                   [cw EXCEPT !.grid.cells[p] = Letter(ch[1], None, number)], clue, i + 1)
          ELSE IF cell[1].kind = "Letter"
            THEN IF cell[1].correct # ch[1] THEN [res |-> "Err", cw |-> cw]
                 ELSE IF i = 0 /\ cell[1].number = None
                   THEN add_clue_from_passing(
                          [cw EXCEPT !.grid.cells[p].number = Some(clue.number)], clue, i + 1)
                 ELSE add_clue_from_passing(cw, clue, i + 1)
          ELSE [res |-> "Err", cw |-> cw]

\* The loop of Crossword::add_clue from position i (counted from 0) on:
\* the outcome and the crossword as the loop leaves it.
RECURSIVE add_clue_from(_, _, _)
add_clue_from(cw, clue, i) ==
    IF i >= length(clue)
    THEN [res |-> "Ok", cw |-> [cw EXCEPT !.clues = Append(@, clue)]]
    ELSE
      LET p == positions(clue)[i + 1]
          ch == chars_nth(clue.answer, i)
          number == IF i = 0 THEN Some(clue.number) ELSE None
          cell == get_cell(cw.grid, p[1], p[2])
      IN  IF ch = None THEN [res |-> "Panic", cw |-> cw]        \* unwrap() of None
          ELSE IF cell = None THEN [res |-> "Err", cw |-> cw]
          ELSE IF cell[1].kind = "Empty"
            THEN add_clue_from(
                   [cw EXCEPT !.grid.cells[p] = Letter(ch[1], None, number)], clue, i + 1)
          ELSE IF cell[1].kind = "Letter"
            THEN IF cell[1].correct # ch[1] THEN [res |-> "Err", cw |-> cw]
                 ELSE IF i = 0 /\ cell[1].number = None
                   THEN add_clue_from(
                          [cw EXCEPT !.grid.cells[p].number = Some(clue.number)], clue, i + 1)
                 ELSE add_clue_from(cw, clue, i + 1)
          ELSE [res |-> "Err", cw |-> cw]                        \* Blocked

\* Crossword::add_clue
add_clue(cw, clue) ==
    IF ~ validate_clue(cw, clue) THEN [res |-> "Err", cw |-> cw]
    ELSE add_clue_from(cw, clue, 0)

\* Crossword::set_blocked_cell: what it returns and the crossword afterwards
set_blocked_cell(cw, row, col) ==
    [res |-> set_cell_result(cw.grid, row, col),
     cw |-> [cw EXCEPT !.grid = set_cell(@, row, col, Blocked)]]

\* Crossword::is_complete
Crossword_is_complete(cw) == Grid_is_complete(cw.grid)

\* Faulty variant of the inner loop of validate_solution: a Letter cell
\* without input counts as a wrong letter
clue_errors_unfilled(cw, clue) ==
    LET wrong(p) ==
            LET cell == get_cell(cw.grid, p[1], p[2])
            IN  /\ cell # None
                /\ cell[1].kind = "Letter"
                /\ (cell[1].user_input = None \/ cell[1].user_input[1] # cell[1].correct)
        F[i \in 0..length(clue)] ==
            IF i = 0 THEN <<>>
            ELSE IF wrong(positions(clue)[i])
              THEN Append(F[i - 1], [row |-> positions(clue)[i][1],
                                     col |-> positions(clue)[i][2],
                                     number |-> clue.number, direction |-> clue.direction])
            ELSE F[i - 1]
    IN  F[length(clue)]

\* Crossword::validate_solution, the inner loop: the messages for one clue, a
\* message being the position, the clue number and the direction it prints
clue_errors(cw, clue) ==
    LET wrong(p) ==
            LET cell == get_cell(cw.grid, p[1], p[2])
            IN  /\ cell # None
                /\ cell[1].kind = "Letter"
                /\ cell[1].user_input # None
                /\ cell[1].user_input[1] # cell[1].correct
        F[i \in 0..length(clue)] ==
            IF i = 0 THEN <<>>
            ELSE IF wrong(positions(clue)[i])
              THEN Append(F[i - 1], [row |-> positions(clue)[i][1],
                                     col |-> positions(clue)[i][2],
                                     number |-> clue.number, direction |-> clue.direction])
            ELSE F[i - 1]
    IN  F[length(clue)]

\* Crossword::validate_solution
validate_solution(cw) ==
    LET G[k \in 0..Len(cw.clues)] ==
            IF k = 0 THEN <<>> ELSE G[k - 1] \o clue_errors(cw, cw.clues[k])
    IN  G[Len(cw.clues)]

----------------------------------------------------------------------------
(* core/src/generator.rs *)

\* WordEntry::new
WordEntry_new(word, clue) == [word |-> to_uppercase(word), clue |-> clue]

\* WordEntry::len
entry_len(entry) == str_len(entry.word)

\* CrosswordGenerator::new
CrosswordGenerator_new(config) ==
    [config |-> config,
     word_list |-> <<>>,
     grid |-> Grid_new(config.width, config.height),
     placed_words |-> <<>>,
     blocked_positions |-> {},
     word_starts |-> <<>>,
     next_clue_number |-> 1]

\* The filter of add_words
accepts_word(word) ==
    str_len(word) >= 3 /\ \A i \in 1..Len(word) : is_alphabetic(word[i])

RECURSIVE push_accepted(_, _)
push_accepted(word_list, words) ==
    IF words = <<>> THEN word_list
    ELSE push_accepted(
           IF accepts_word(Head(words)[1])
             THEN Append(word_list, WordEntry_new(Head(words)[1], Head(words)[2]))
             ELSE word_list,
           Tail(words))

\* Faulty variant of add_words: the sort by length does not keep the order of
\* words of one length
add_words_unstable(g, words) ==
    LET pushed == push_accepted(g.word_list, words)
    IN  [g EXCEPT !.word_list =
            IF g.config.prefer_longer_words
              THEN sort_by(reverse(pushed), "entry_len_desc")
            ELSE pushed]

\* CrosswordGenerator::add_words
add_words(g, words) ==
    LET pushed == push_accepted(g.word_list, words)
    IN  [g EXCEPT !.word_list =
            IF g.config.prefer_longer_words THEN sort_by(pushed, "entry_len_desc")
            ELSE pushed]

\* The positional hash of the two pattern generators
position_hash(row, col, s) == (row * 31 + col * 17 + s) % 100

\* Faulty variant of add_symmetric_blocked_cell: the counterpart is taken in
\* the mirrored row of the same column
add_symmetric_blocked_cell_mirrored(g, row, col) ==
    LET ps == {<<row, col>>, <<g.config.height - 1 - row, col>>}
        ok == {p \in ps : p[1] < g.config.height /\ p[2] < g.config.width}
    IN  [g EXCEPT !.blocked_positions = @ \cup ok,
                  !.grid.cells = [p \in DOMAIN @ |-> IF p \in ok THEN Blocked ELSE @[p]]]

\* CrosswordGenerator::add_symmetric_blocked_cell
add_symmetric_blocked_cell(g, row, col) ==
    LET ps == {<<row, col>>,
               <<g.config.height - 1 - row, g.config.width - 1 - col>>}
        ok == {p \in ps : p[1] < g.config.height /\ p[2] < g.config.width}
    IN  [g EXCEPT !.blocked_positions = @ \cup ok,
                  !.grid.cells = [p \in DOMAIN @ |-> IF p \in ok THEN Blocked ELSE @[p]]]

\* CrosswordGenerator::generate_symmetric_pattern: the double loop from the
\* k-th cell of the quadrant on, the quadrant being read row by row; hits are
\* the cells whose hash is below the threshold
RECURSIVE symmetric_from(_, _, _)
symmetric_from(g, hits, k) ==
    LET cols == g.config.width \div 2 + 1
        rows == g.config.height \div 2 + 1
        row == k \div cols
        col == k % cols
    IN  IF k >= rows * cols THEN g
        ELSE symmetric_from(
               IF <<row, col>> \in hits
                 THEN add_symmetric_blocked_cell(g, row, col) ELSE g,
               hits, k + 1)

\* The cells the loops of generate_symmetric_pattern visit, and those the loops
\* of generate_random_pattern visit
pattern_quadrant(g) == (0..g.config.height \div 2) \X (0..g.config.width \div 2)
grid_positions(g) == (0..g.config.height - 1) \X (0..g.config.width - 1)

\* The visited cells whose hash is below the density threshold
hash_below(cells, s, threshold) == {p \in cells : position_hash(p[1], p[2], s) < threshold}

\* generate_symmetric_pattern, given the cells whose hash is below 15
generate_symmetric_pattern_on(g, hits) == symmetric_from(g, hits, 0)

\* CrosswordGenerator::generate_symmetric_pattern
generate_symmetric_pattern(g, s) ==
    generate_symmetric_pattern_on(g, hash_below(pattern_quadrant(g), s, 15))

\* generate_random_pattern, given the cells whose hash is below 12
generate_random_pattern_on(g, hits) ==
    [g EXCEPT !.blocked_positions = @ \cup hits,
              !.grid.cells = [p \in DOMAIN @ |-> IF p \in hits THEN Blocked ELSE @[p]]]

\* CrosswordGenerator::generate_random_pattern
generate_random_pattern(g, s) ==
    generate_random_pattern_on(g, hash_below(grid_positions(g), s, 12))

\* Faulty variant of clear_grid: the word-start map and the clue counter stay
clear_grid_keeping_numbers(g) ==
    [g EXCEPT !.grid = Grid_new(g.config.width, g.config.height),
              !.placed_words = <<>>,
              !.blocked_positions = {}]

\* reset_grid up to the pattern
clear_grid(g) ==
    [g EXCEPT !.grid = Grid_new(g.config.width, g.config.height),
              !.placed_words = <<>>,
              !.blocked_positions = {},
              !.word_starts = <<>>,
              !.next_clue_number = 1]

\* CrosswordGenerator::reset_grid
reset_grid(g, s) ==
    IF g.config.symmetry THEN generate_symmetric_pattern(clear_grid(g), s)
    ELSE generate_random_pattern(clear_grid(g), s)

\* reset_grid, given the cells the hash selects
reset_grid_on(g, hits) ==
    IF g.config.symmetry
      THEN generate_symmetric_pattern_on(clear_grid(g), hits \cap pattern_quadrant(g))
      ELSE generate_random_pattern_on(clear_grid(g), hits)

WordSlot(row, col, len, direction) ==
    [row |-> row, col |-> col, length |-> len, direction |-> direction]

\* One line (a row for Across, a column for Down) of find_word_slots, from
\* index k on, start being the start of the open run, if one is open
\* Faulty variant of scan_line: the loop stops before the edge of the grid, so
\* a run that reaches the edge is not closed
RECURSIVE scan_line_exclusive(_, _, _, _, _)
scan_line_exclusive(g, direction, line, k, start) ==
    LET limit == IF direction = Across THEN g.config.width ELSE g.config.height
        pos == IF direction = Across THEN <<line, k>> ELSE <<k, line>>
        is_blocked == k = limit \/ pos \in g.blocked_positions
    IN  IF k >= limit THEN <<>>
        ELSE IF is_blocked
          THEN (IF start # None /\ k - start[1] >= 3
                  THEN << IF direction = Across
                            THEN WordSlot(line, start[1], k - start[1], Across)
                            ELSE WordSlot(start[1], line, k - start[1], Down) >>
                  ELSE <<>>)
               \o scan_line_exclusive(g, direction, line, k + 1, None)
        ELSE scan_line_exclusive(g, direction, line, k + 1,
                                 IF start = None THEN Some(k) ELSE start)

RECURSIVE scan_line(_, _, _, _, _)
scan_line(g, direction, line, k, start) ==
    LET limit == IF direction = Across THEN g.config.width ELSE g.config.height
        pos == IF direction = Across THEN <<line, k>> ELSE <<k, line>>
        is_blocked == k = limit \/ pos \in g.blocked_positions
    IN  IF k > limit THEN <<>>
        ELSE IF is_blocked
          THEN (IF start # None /\ k - start[1] >= 3
                  THEN << IF direction = Across
                            THEN WordSlot(line, start[1], k - start[1], Across)
                            ELSE WordSlot(start[1], line, k - start[1], Down) >>
                  ELSE <<>>)
               \o scan_line(g, direction, line, k + 1, None)
        ELSE scan_line(g, direction, line, k + 1, IF start = None THEN Some(k) ELSE start)

RECURSIVE scan_lines(_, _, _)
scan_lines(g, direction, line) ==
    LET count == IF direction = Across THEN g.config.height ELSE g.config.width
    IN  IF line >= count THEN <<>>
        ELSE scan_line(g, direction, line, 0, None) \o scan_lines(g, direction, line + 1)

\* CrosswordGenerator::find_word_slots
find_word_slots(g) ==
    sort_by(scan_lines(g, Across, 0) \o scan_lines(g, Down, 0), "slot_length_desc")

\* The cell a slot (or a placement) reaches with its i-th letter, i from 0
slot_cell(at, i) ==
    IF at.direction = Across THEN <<at.row, at.col + i>> ELSE <<at.row + i, at.col>>

\* Faulty variant of is_word_already_used: the last placed word is not looked at
is_word_already_used_but_last(g, word) ==
    \E k \in 1..Len(g.placed_words) - 1 : g.placed_words[k].word = word

\* CrosswordGenerator::is_word_already_used
is_word_already_used(g, word) ==
    \E k \in 1..Len(g.placed_words) : g.placed_words[k].word = word

\* CrosswordGenerator::find_candidate_words
find_candidate_words(g, slot) ==
    LET keep(entry) == entry_len(entry) = slot.length /\ ~ is_word_already_used(g, entry.word)
        F[k \in 0..Len(g.word_list)] ==
            IF k = 0 THEN <<>>
            ELSE IF keep(g.word_list[k]) THEN Append(F[k - 1], g.word_list[k])
            ELSE F[k - 1]
    IN  F[Len(g.word_list)]

\* Faulty variant of can_place_word: a Letter cell takes any letter
can_place_word_any_letter(g, word_entry, slot) ==
    \A i \in 0..chars_count(word_entry.word) - 1 :
        LET p == slot_cell(slot, i)
            cell == get_cell(g.grid, p[1], p[2])
        IN  \/ cell = None
            \/ cell[1].kind = "Empty"
            \/ cell[1].kind = "Letter"

\* CrosswordGenerator::can_place_word
can_place_word(g, word_entry, slot) ==
    \A i \in 0..chars_count(word_entry.word) - 1 :
        LET p == slot_cell(slot, i)
            cell == get_cell(g.grid, p[1], p[2])
        IN  \/ cell = None
            \/ cell[1].kind = "Empty"
            \/ cell[1].kind = "Letter" /\ cell[1].correct = word_entry.word[i + 1]

\* The map insert of HashMap
map_insert(m, k, v) == [x \in DOMAIN m \cup {k} |-> IF x = k THEN v ELSE m[x]]

\* The map remove of HashMap
map_remove(m, k) == [x \in DOMAIN m \ {k} |-> m[x]]

\* Faulty variant of place_word: every cell gets the first letter of the word
place_word_first_letter(g, word_entry, slot) ==
    LET n == chars_count(word_entry.word)
        written == {slot_cell(slot, i) : i \in 0..n - 1} \cap DOMAIN g.grid.cells
        index_of(p) == CHOOSE i \in 0..n - 1 : slot_cell(slot, i) = p
        placement == [word |-> word_entry.word, clue |-> word_entry.clue,
                      row |-> slot.row, col |-> slot.col, direction |-> slot.direction]
    IN  [g EXCEPT
           !.grid.cells = [p \in DOMAIN @ |->
               IF p \in written
                 THEN Letter(word_entry.word[1], None,
                             IF index_of(p) = 0 THEN Some(g.next_clue_number) ELSE None)
                 ELSE @[p]],
           !.placed_words = Append(@, placement),
           !.word_starts = map_insert(@, <<slot.row, slot.col>>, g.next_clue_number),
           !.next_clue_number = @ + 1]

\* CrosswordGenerator::place_word
place_word(g, word_entry, slot) ==
    LET n == chars_count(word_entry.word)
        written == {slot_cell(slot, i) : i \in 0..n - 1} \cap DOMAIN g.grid.cells
        index_of(p) == CHOOSE i \in 0..n - 1 : slot_cell(slot, i) = p
        placement == [word |-> word_entry.word, clue |-> word_entry.clue,
                      row |-> slot.row, col |-> slot.col, direction |-> slot.direction]
    IN  [g EXCEPT
           !.grid.cells = [p \in DOMAIN @ |->
               IF p \in written
                 THEN Letter(word_entry.word[index_of(p) + 1], None,
                             IF index_of(p) = 0 THEN Some(g.next_clue_number) ELSE None)
                 ELSE @[p]],
           !.placed_words = Append(@, placement),
           !.word_starts = map_insert(@, <<slot.row, slot.col>>, g.next_clue_number),
           !.next_clue_number = @ + 1]

\* CrosswordGenerator::is_position_used_by_other_words
is_position_used_by_other_words(g, row, col, exclude) ==
    \E k \in 1..Len(g.placed_words) :
        LET p == g.placed_words[k]
        IN  /\ p.word # exclude.word
            /\ \E i \in 0..str_len(p.word) - 1 : slot_cell(p, i) = <<row, col>>

\* CrosswordGenerator::remove_last_word
remove_last_word(g) ==
    IF g.placed_words = <<>> THEN g
    ELSE
      LET placement == g.placed_words[Len(g.placed_words)]
          popped == [g EXCEPT !.placed_words = SubSeq(@, 1, Len(@) - 1)]
          cleared == {slot_cell(placement, i) : i \in 0..str_len(placement.word) - 1}
      IN  [popped EXCEPT
             !.grid.cells = [p \in DOMAIN @ |->
                 IF p \in cleared /\ ~ is_position_used_by_other_words(popped, p[1], p[2], placement)
                   THEN Empty ELSE @[p]],
             !.word_starts = map_remove(@, <<placement.row, placement.col>>),
             !.next_clue_number = @ - 1]

\* Faulty variant of get_clue_number: the key is built as (col, row)
get_clue_number_swapped(g, row, col) ==
    IF <<col, row>> \in DOMAIN g.word_starts THEN g.word_starts[<<col, row>>] ELSE 1

\* CrosswordGenerator::get_clue_number
get_clue_number(g, row, col) ==
    IF <<row, col>> \in DOMAIN g.word_starts THEN g.word_starts[<<row, col>>] ELSE 1

\* The loop of build_crossword from the k-th placement on
RECURSIVE build_from(_, _, _)
build_from(g, cw, k) ==
    IF k > Len(g.placed_words) THEN [res |-> "Ok", cw |-> cw]
    ELSE
      LET placement == g.placed_words[k]
          clue == Clue_new(get_clue_number(g, placement.row, placement.col),
                           placement.direction, placement.clue, placement.word,
                           placement.row, placement.col)
          added == add_clue(cw, clue)
      IN  IF added.res = "Ok" THEN build_from(g, added.cw, k + 1)
          ELSE added                      \* the ? operator; a panic unwinds

\* CrosswordGenerator::build_crossword
build_crossword(g) ==
    build_from(g, [Crossword_new(g.config.width, g.config.height) EXCEPT !.grid = g.grid], 1)

\* Faulty variant of shuffle_words: the last word moves to the front
shuffle_words_rotating(g) ==
    [g EXCEPT !.word_list =
        IF @ = <<>> THEN <<>> ELSE <<@[Len(@)]>> \o SubSeq(@, 1, Len(@) - 1)]

\* CrosswordGenerator::shuffle_words
shuffle_words(g) ==
    [g EXCEPT !.word_list = reverse(sort_by(@, "entry_word_asc"))]

\* Faulty variant of evaluate_quality: counts the vocabulary, not the clues
evaluate_quality_vocabulary(g, crossword) == [word_count |-> Len(g.word_list)]

\* CrosswordGenerator::evaluate_quality: the word_count of the PuzzleQuality
\* (the other fields are never read)
evaluate_quality(g, crossword) == [word_count |-> Len(crossword.clues)]

----------------------------------------------------------------------------
(* The inputs of the generator *)

MaxAttempts == 2        \* max_attempts ranges over 0..MaxAttempts
MaxWordsCfg == 2        \* max_words ranges over 0..MaxWordsCfg
MinWordsCfg == 2        \* min_words ranges over 0..MinWordsCfg
MaxVocab == 2           \* add_words is given at most MaxVocab pairs

\* (width, height)
Dims == {<<3, 3>>, <<3, 4>>}

\* Values of the hash seed, modulo 100: 0 blocks the corner (0,0) (and the
\* opposite corner with symmetry), 20 blocks nothing, 52 blocks (1,1) (and,
\* with symmetry on the 3 x 4 grid, (2,0), (2,1) and (1,2) as well), 84 blocks
\* (0,1) (and the opposite cell with symmetry; without it (3,2) as well on the
\* 3 x 4 grid), which leaves one across slot whose first cell a down slot
\* passes through.
Seeds == {0, 20, 52, 84}

Configs ==
    [width : {d[1] : d \in Dims}, height : {d[2] : d \in Dims},
     max_words : 0..MaxWordsCfg, min_words : 0..MinWordsCfg,
     symmetry : BOOLEAN, max_attempts : 0..MaxAttempts,
     prefer_longer_words : BOOLEAN]

\* The (word, clue) pairs a caller may pass: words that cross each other with
\* equal and with different letters, the same word twice in another case and
\* with another clue, a word that is too short, one with a digit, and one of
\* two characters that is three bytes long, a longer word, and a word of one
\* character that is three bytes long.
Pool ==
    { << <<"A", "B", "A">>, "x" >>,
      << <<"a", "b", "a">>, "y" >>,
      << <<"B", "A", "B">>, "x" >>,
      << <<"B", "B", "A">>, "x" >>,
      << <<"A", "B", "A", "B">>, "x" >>,
      << <<"A", "B">>, "x" >>,
      << <<"A", "1", "B">>, "x" >>,
      << <<"e'", "A">>, "x" >>,
      << <<"zh">>, "x" >> }

RECURSIVE SeqsUpTo(_, _)
SeqsUpTo(S, n) ==
    IF n = 0 THEN {<<>>}
    ELSE LET shorter == SeqsUpTo(S, n - 1)
         IN  shorter \cup {Append(q, x) : q \in shorter, x \in S}

Vocabularies == SeqsUpTo(Pool, MaxVocab)

----------------------------------------------------------------------------
(* The generator as a state machine: new, add_words, generate *)

NoResult == [kind |-> "None"]
MaxAttemptsExceeded == [kind |-> "Err", error |-> "MaxAttemptsExceeded"]

Frame(slot_index) ==
    [slot_index |-> slot_index, candidates |-> <<>>, next |-> 1, at |-> "entry"]

IdxIdle ==
    /\ solution = <<>>
    /\ idx = None
    /\ pgrid = None
    /\ ipc = "idle"

ApiIdle ==
    /\ puzzle = <<>>
    /\ last_call = [op |-> "none"]
    /\ ncalls = 0

Init ==
    /\ \E config \in Configs : gen = CrosswordGenerator_new(config)
    /\ seed \in Seeds
    /\ pc = "new"
    /\ attempt = 0
    /\ slots = <<>>
    /\ stack = <<>>
    /\ ret = "None"
    /\ result = NoResult
    /\ words_in = <<>>
    /\ IdxIdle
    /\ ApiIdle

\* generate_crossword: add_words on the fresh generator, then generate
call_add_words ==
    /\ pc = "new"
    /\ \E words \in Vocabularies :
          /\ gen' = add_words(gen, words)
          /\ words_in' = words
    /\ pc' = "loop"
    /\ UNCHANGED <<seed, attempt, slots, stack, ret, result>>
    /\ UNCHANGED idxVars
    /\ UNCHANGED apiVars

\* Faulty variant of the loop head: one attempt too many
loop_continues_inclusive(g, i) == i <= g.config.max_attempts

\* for attempt in 0..self.config.max_attempts
loop_continues(g, i) == i < g.config.max_attempts

\* generate: the head of the for loop; reset_grid and the start of
\* attempt_generation, or the end of the loop
generate_loop ==
    /\ pc = "loop"
    /\ IF loop_continues(gen, attempt)
         THEN LET g == reset_grid(gen, seed)
              IN  /\ gen' = g
                  /\ slots' = find_word_slots(g)
                  /\ stack' = <<Frame(0)>>          \* fill_slots_with_backtracking
                  /\ ret' = "None"
                  /\ pc' = "search"
                  /\ UNCHANGED result
         ELSE /\ result' = MaxAttemptsExceeded
              /\ pc' = "done"
              /\ UNCHANGED <<gen, slots, stack, ret>>
    /\ UNCHANGED <<seed, attempt, words_in>>
    /\ UNCHANGED idxVars
    /\ UNCHANGED apiVars

Top == stack[Len(stack)]
Pop == SubSeq(stack, 1, Len(stack) - 1)
SetTop(f) == [stack EXCEPT ![Len(stack)] = f]

\* Faulty variant of the base case: the placed-word count is not looked at
base_case_slots_only(g, slot_list, slot_index) == slot_index >= Len(slot_list)

\* backtrack: the condition of the base case
base_case(g, slot_list, slot_index) ==
    slot_index >= Len(slot_list) \/ Len(g.placed_words) >= g.config.max_words

\* Faulty variant of the base case: it fails when fewer than min_words words
\* are placed
base_case_result_counting(g) ==
    IF Len(g.placed_words) >= g.config.min_words THEN "Ok" ELSE "Err"

\* backtrack: what the base case returns, Ok(())
base_case_result(g) == "Ok"

\* backtrack: the base case, or the candidates of the slot
backtrack_enter ==
    /\ pc = "search"
    /\ ret = "None"
    /\ stack # <<>>
    /\ Top.at = "entry"
    /\ IF base_case(gen, slots, Top.slot_index)
         THEN /\ stack' = Pop
              /\ ret' = base_case_result(gen)
         ELSE /\ stack' = SetTop([Top EXCEPT
                    !.candidates = find_candidate_words(gen, slots[Top.slot_index + 1]),
                    !.at = "loop"])
              /\ UNCHANGED ret
    /\ UNCHANGED <<gen, seed, pc, attempt, slots, result, words_in>>
    /\ UNCHANGED idxVars
    /\ UNCHANGED apiVars

\* backtrack: the for loop up to its next recursive call, or, the candidates
\* used up, the call that skips the slot
backtrack_try ==
    /\ pc = "search"
    /\ ret = "None"
    /\ stack # <<>>
    /\ Top.at = "loop"
    /\ LET slot == slots[Top.slot_index + 1]
           fits == {k \in Top.next..Len(Top.candidates) :
                        can_place_word(gen, Top.candidates[k], slot)}
       IN  IF fits # {}
             THEN LET k == CHOOSE k \in fits : \A j \in fits : k <= j
                  IN  /\ gen' = place_word(gen, Top.candidates[k], slot)
                      /\ stack' = Append(SetTop([Top EXCEPT !.next = k + 1, !.at = "placed"]),
                                         Frame(Top.slot_index + 1))
             ELSE /\ stack' = Append(SetTop([Top EXCEPT !.next = Len(Top.candidates) + 1,
                                                        !.at = "skipped"]),
                                     Frame(Top.slot_index + 1))
                  /\ UNCHANGED gen
    /\ UNCHANGED <<seed, pc, attempt, slots, ret, result, words_in>>
    /\ UNCHANGED idxVars
    /\ UNCHANGED apiVars

\* backtrack: a recursive call has returned
backtrack_return ==
    /\ pc = "search"
    /\ ret # "None"
    /\ stack # <<>>
    /\ IF Top.at = "placed" /\ ret # "Ok"
         THEN /\ gen' = remove_last_word(gen)
              /\ stack' = SetTop([Top EXCEPT !.at = "loop"])
              /\ ret' = "None"
         ELSE /\ stack' = Pop          \* return Ok(()), or the skipping call's value
              /\ UNCHANGED <<gen, ret>>
    /\ UNCHANGED <<seed, pc, attempt, slots, result, words_in>>
    /\ UNCHANGED idxVars
    /\ UNCHANGED apiVars

\* attempt_generation after the search, and the rest of the loop body
attempt_end ==
    /\ pc = "search"
    /\ ret # "None"
    /\ stack = <<>>
    /\ LET built == IF ret = "Ok" THEN build_crossword(gen) ELSE [res |-> "Err"]
           accepted == /\ built.res = "Ok"
                       /\ evaluate_quality(gen, built.cw).word_count >= gen.config.min_words
       IN  IF built.res = "Panic"
             THEN /\ result' = [kind |-> "Panic"]
                  /\ pc' = "done"
                  /\ UNCHANGED <<gen, attempt>>
           ELSE IF accepted
             THEN /\ result' = [kind |-> "Ok", crossword |-> built.cw]
                  /\ pc' = "done"
                  /\ UNCHANGED <<gen, attempt>>
           ELSE /\ gen' = IF attempt < gen.config.max_attempts - 1
                            THEN shuffle_words(gen) ELSE gen
                /\ attempt' = attempt + 1
                /\ pc' = "loop"
                /\ UNCHANGED result
    /\ ret' = "None"
    /\ UNCHANGED <<seed, slots, stack, words_in>>
    /\ UNCHANGED idxVars
    /\ UNCHANGED apiVars

Next ==
    \/ call_add_words
    \/ generate_loop
    \/ backtrack_enter
    \/ backtrack_try
    \/ backtrack_return
    \/ attempt_end

Spec == Init /\ [][Next]_vars

----------------------------------------------------------------------------
(* generate with more than two attempts *)

MostAttempts == 4       \* max_attempts ranges over 3..MostAttempts here
MostVocab == 3          \* add_words is given at most MostVocab pairs here
MostWords == 3          \* max_words and min_words range over 2..MostWords here

ManyAttemptsConfigs ==
    [width : {d[1] : d \in Dims}, height : {d[2] : d \in Dims},
     max_words : 2..MostWords, min_words : 2..MostWords,
     symmetry : BOOLEAN, max_attempts : 3..MostAttempts,
     prefer_longer_words : {FALSE}]

\* The pairs a caller may pass here: words that fit a slot only next to some
\* of the others, one of them twice with two clues, and a longer word
ManyAttemptsPool ==
    { << <<"A", "B", "A">>, "x" >>,
      << <<"a", "b", "a">>, "y" >>,
      << <<"B", "A", "B">>, "x" >>,
      << <<"B", "B", "A">>, "x" >>,
      << <<"A", "B", "A", "B">>, "x" >> }

InitManyAttempts ==
    /\ \E config \in ManyAttemptsConfigs : gen = CrosswordGenerator_new(config)
    /\ seed \in Seeds
    /\ pc = "new"
    /\ attempt = 0
    /\ slots = <<>>
    /\ stack = <<>>
    /\ ret = "None"
    /\ result = NoResult
    /\ words_in = <<>>
    /\ IdxIdle
    /\ ApiIdle

\* generate_crossword: add_words on the fresh generator, then generate
call_add_many_words ==
    /\ pc = "new"
    /\ \E words \in SeqsUpTo(ManyAttemptsPool, MostVocab) :
          /\ gen' = add_words(gen, words)
          /\ words_in' = words
    /\ pc' = "loop"
    /\ UNCHANGED <<seed, attempt, slots, stack, ret, result>>
    /\ UNCHANGED idxVars
    /\ UNCHANGED apiVars

NextManyAttempts ==
    \/ call_add_many_words
    \/ generate_loop
    \/ backtrack_enter
    \/ backtrack_try
    \/ backtrack_return
    \/ attempt_end

SpecManyAttempts == InitManyAttempts /\ [][NextManyAttempts]_vars

----------------------------------------------------------------------------
(* generate as a function of the generator it is called on *)

\* CrosswordGenerator::backtrack: what it returns and the generator it leaves;
\* backtrack_candidates is its for loop from the k-th candidate on
RECURSIVE backtrack(_, _, _)
RECURSIVE backtrack_candidates(_, _, _, _, _)
backtrack(g, slot_list, slot_index) ==
    IF base_case(g, slot_list, slot_index)
      THEN [res |-> base_case_result(g), gen |-> g]
      ELSE backtrack_candidates(g, slot_list, slot_index,
                                find_candidate_words(g, slot_list[slot_index + 1]), 1)

backtrack_candidates(g, slot_list, slot_index, candidate_words, k) ==
    LET slot == slot_list[slot_index + 1]
    IN  IF k > Len(candidate_words)
          THEN backtrack(g, slot_list, slot_index + 1)
        ELSE IF can_place_word(g, candidate_words[k], slot)
          THEN LET r == backtrack(place_word(g, candidate_words[k], slot),
                                  slot_list, slot_index + 1)
               IN  IF r.res = "Ok" THEN r
                   ELSE backtrack_candidates(remove_last_word(r.gen), slot_list,
                                             slot_index, candidate_words, k + 1)
        ELSE backtrack_candidates(g, slot_list, slot_index, candidate_words, k + 1)

\* CrosswordGenerator::attempt_generation: the outcome ("Ok" with the
\* crossword, "Err", or "Panic") and the generator it leaves
attempt_generation(g) ==
    LET searched == backtrack(g, find_word_slots(g), 0)
        built == build_crossword(searched.gen)
    IN  IF searched.res # "Ok" THEN [res |-> "Err", gen |-> searched.gen]
        ELSE [res |-> built.res, cw |-> built.cw, gen |-> searched.gen]

\* CrosswordGenerator::generate from the given pass of its for loop on: what
\* the caller gets
RECURSIVE generate_from(_, _, _)
generate_from(g, s, i) ==
    IF ~ loop_continues(g, i) THEN MaxAttemptsExceeded
    ELSE
      LET tried == attempt_generation(reset_grid(g, s))
      IN  IF tried.res = "Panic" THEN [kind |-> "Panic"]
          ELSE IF /\ tried.res = "Ok"
                  /\ evaluate_quality(tried.gen, tried.cw).word_count >= g.config.min_words
            THEN [kind |-> "Ok", crossword |-> tried.cw]
          ELSE generate_from(IF i < g.config.max_attempts - 1
                               THEN shuffle_words(tried.gen) ELSE tried.gen,
                             s, i + 1)

\* CrosswordGenerator::generate
generate(g, s) == generate_from(g, s, 0)

\* generate_crossword: new, add_words, generate
generate_crossword(config, words, s) ==
    generate(add_words(CrosswordGenerator_new(config), words), s)

----------------------------------------------------------------------------
(* tui/src/views/game/grid.rs: PuzzleGrid::from_solution *)

\* The rows as Vec<Vec<char>>, and the dimensions from_solution reads off them
sol_height(sol) == Len(sol)
sol_width(sol) == chars_count(sol[1])

\* The closure is_filled: chars[r][c] == '.'
is_filled(sol, r, c) == sol[r + 1][c + 1] = "."

\* The closure is_letter
is_letter(sol, r, c) ==
    /\ r >= 0
    /\ c >= 0
    /\ r < sol_height(sol)
    /\ c < sol_width(sol)
    /\ ~ is_filled(sol, r, c)

\* Pass 1 at one cell
starts_across(sol, row, col) == ~ is_letter(sol, row, col - 1) /\ is_letter(sol, row, col + 1)
starts_down(sol, row, col) == ~ is_letter(sol, row - 1, col) /\ is_letter(sol, row + 1, col)

\* Faulty variant of number_cell: the counter advances once per word, so a cell
\* that starts two words uses up two numbers
number_cell_per_word(sol, st, row, col) ==
    LET sa == starts_across(sol, row, col)
        sd == starts_down(sol, row, col)
    IN  IF sa \/ sd
          THEN [across_clue_at |-> IF sa
                    THEN [st.across_clue_at EXCEPT ![<<row, col>>] = Some(st.current_number)]
                    ELSE st.across_clue_at,
                down_clue_at |-> IF sd
                    THEN [st.down_clue_at EXCEPT ![<<row, col>>] = Some(st.current_number)]
                    ELSE st.down_clue_at,
                current_number |-> st.current_number + (IF sa /\ sd THEN 2 ELSE 1)]
          ELSE st

\* Faulty variant of number_cell: in a cell that starts two words the down
\* word gets the number after the one of the across word
number_cell_down_next(sol, st, row, col) ==
    LET sa == starts_across(sol, row, col)
        sd == starts_down(sol, row, col)
        down_number == st.current_number + (IF sa THEN 1 ELSE 0)
    IN  IF sa \/ sd
          THEN [across_clue_at |-> IF sa
                    THEN [st.across_clue_at EXCEPT ![<<row, col>>] = Some(st.current_number)]
                    ELSE st.across_clue_at,
                down_clue_at |-> IF sd
                    THEN [st.down_clue_at EXCEPT ![<<row, col>>] = Some(down_number)]
                    ELSE st.down_clue_at,
                current_number |-> st.current_number + (IF sa /\ sd THEN 2 ELSE 1)]
          ELSE st

\* Pass 1 at one cell that is not filled: st holds across_clue_at,
\* down_clue_at and current_number
number_cell(sol, st, row, col) ==
    LET sa == starts_across(sol, row, col)
        sd == starts_down(sol, row, col)
    IN  IF sa \/ sd
          THEN [across_clue_at |-> IF sa
                    THEN [st.across_clue_at EXCEPT ![<<row, col>>] = Some(st.current_number)]
                    ELSE st.across_clue_at,
                down_clue_at |-> IF sd
                    THEN [st.down_clue_at EXCEPT ![<<row, col>>] = Some(st.current_number)]
                    ELSE st.down_clue_at,
                current_number |-> st.current_number + 1]
          ELSE st

\* Pass 1 from the k-th cell on, in row-major order
RECURSIVE pass1_from(_, _, _)
pass1_from(sol, st, k) ==
    LET width == sol_width(sol)
        row == k \div width
        col == k % width
    IN  IF width = 0 \/ k >= sol_height(sol) * width THEN st
        ELSE IF is_filled(sol, row, col) THEN pass1_from(sol, st, k + 1)
        ELSE pass1_from(sol, number_cell(sol, st, row, col), k + 1)

\* chars[r][c] is read for every r < height and c < width, so a row shorter
\* than the first one is an index out of bounds
index_out_of_bounds(sol) ==
    \E r \in 1..Len(sol) : chars_count(sol[r]) < sol_width(sol)

\* Pass 1 of from_solution: None for a panic
pass1(sol) ==
    IF sol_height(sol) = 0 THEN None                 \* "Solution grid cannot be empty"
    ELSE IF index_out_of_bounds(sol) THEN None
    ELSE LET cells == (0..sol_height(sol) - 1) \X (0..sol_width(sol) - 1)
         IN  Some(pass1_from(sol,
                    [across_clue_at |-> [p \in cells |-> None],
                     down_clue_at |-> [p \in cells |-> None],
                     current_number |-> 1],
                    0))

\* The two while loops of pass 2
RECURSIVE scan_left(_, _, _)
scan_left(sol, row, start) ==
    IF start > 0 /\ ~ is_filled(sol, row, start - 1) THEN scan_left(sol, row, start - 1)
    ELSE start

RECURSIVE scan_up(_, _, _)
scan_up(sol, start, col) ==
    IF start > 0 /\ ~ is_filled(sol, start - 1, col) THEN scan_up(sol, start - 1, col)
    ELSE start

\* Faulty variant of across_info: the offset is counted from the left edge
across_info_from_edge(sol, st, row, col) ==
    IF is_letter(sol, row, col - 1) \/ is_letter(sol, row, col + 1)
      THEN LET start == scan_left(sol, row, col)
               n == st.across_clue_at[<<row, start>>]
           IN  IF n = None THEN None ELSE Some(<<n[1], col>>)
      ELSE None

\* across_info and down_info: None, or Some of the pair (clue number, offset)
across_info(sol, st, row, col) ==
    IF is_letter(sol, row, col - 1) \/ is_letter(sol, row, col + 1)
      THEN LET start == scan_left(sol, row, col)
               n == st.across_clue_at[<<row, start>>]
           IN  IF n = None THEN None ELSE Some(<<n[1], col - start>>)
      ELSE None

down_info(sol, st, row, col) ==
    IF is_letter(sol, row - 1, col) \/ is_letter(sol, row + 1, col)
      THEN LET start == scan_up(sol, row, col)
               n == st.down_clue_at[<<start, col>>]
           IN  IF n = None THEN None ELSE Some(<<n[1], row - start>>)
      ELSE None

\* PuzzleCell::filled, PuzzleCell::valued
PuzzleCell_filled ==
    [val |-> [kind |-> "Filled"], is_selected_cell |-> FALSE, is_selected_word |-> FALSE]

PuzzleCell_valued(clue_letter, word_idx, clue_no) ==
    [val |-> [kind |-> "Letter", clue_letter |-> clue_letter, user_letter |-> None,
              word_idx |-> word_idx, clue_no |-> clue_no],
     is_selected_cell |-> FALSE, is_selected_word |-> FALSE]

\* PuzzleCell::to_no_spans: the clue number the two spans show, None for the
\* plain border; "Panic" for the failed assertion a == d
to_no_spans(cell) ==
    LET clue_no == cell.val.clue_no
        word_idx == cell.val.word_idx
    IN  IF cell.val.kind = "Filled" THEN [res |-> "Ok", no |-> None]
        ELSE IF /\ clue_no.kind = "Across"
                /\ \/ word_idx.kind = "Across" /\ word_idx.across = 0
                   \/ word_idx.kind = "Cross" /\ word_idx.across = 0
          THEN [res |-> "Ok", no |-> Some(clue_no.across)]
        ELSE IF /\ clue_no.kind = "Down"
                /\ \/ word_idx.kind = "Down" /\ word_idx.down = 0
                   \/ word_idx.kind = "Cross" /\ word_idx.down = 0
          THEN [res |-> "Ok", no |-> Some(clue_no.down)]
        ELSE IF /\ clue_no.kind = "Cross" /\ word_idx.kind = "Cross"
                /\ word_idx.across = 0 /\ word_idx.down = 0
          THEN IF clue_no.across = clue_no.down
                 THEN [res |-> "Ok", no |-> Some(clue_no.across)]
                 ELSE [res |-> "Panic"]
        ELSE IF clue_no.kind = "Cross" /\ word_idx.kind = "Cross" /\ word_idx.across = 0
          THEN [res |-> "Ok", no |-> Some(clue_no.across)]
        ELSE IF clue_no.kind = "Cross" /\ word_idx.kind = "Cross" /\ word_idx.down = 0
          THEN [res |-> "Ok", no |-> Some(clue_no.down)]
        ELSE [res |-> "Ok", no |-> None]

\* Faulty variant of classify: a crossing cell is Cross in word_idx only
classify_mixed(clue_letter, a, d) ==
    IF a # None /\ d # None
      THEN Some(PuzzleCell_valued(clue_letter,
                  [kind |-> "Cross", across |-> a[1][2], down |-> d[1][2]],
                  [kind |-> "Across", across |-> a[1][1]]))
    ELSE IF a # None
      THEN Some(PuzzleCell_valued(clue_letter,
                  [kind |-> "Across", across |-> a[1][2]],
                  [kind |-> "Across", across |-> a[1][1]]))
    ELSE IF d # None
      THEN Some(PuzzleCell_valued(clue_letter,
                  [kind |-> "Down", down |-> d[1][2]],
                  [kind |-> "Down", down |-> d[1][1]]))
    ELSE None

\* Faulty variant of classify: a cell of no word is taken as the start of an
\* across word without a number
classify_lenient(clue_letter, a, d) ==
    IF a # None /\ d # None
      THEN Some(PuzzleCell_valued(clue_letter,
                  [kind |-> "Cross", across |-> a[1][2], down |-> d[1][2]],
                  [kind |-> "Cross", across |-> a[1][1], down |-> d[1][1]]))
    ELSE IF a # None
      THEN Some(PuzzleCell_valued(clue_letter,
                  [kind |-> "Across", across |-> a[1][2]],
                  [kind |-> "Across", across |-> a[1][1]]))
    ELSE IF d # None
      THEN Some(PuzzleCell_valued(clue_letter,
                  [kind |-> "Down", down |-> d[1][2]],
                  [kind |-> "Down", down |-> d[1][1]]))
    ELSE Some(PuzzleCell_valued(clue_letter,
                  [kind |-> "Across", across |-> 0],
                  [kind |-> "Across", across |-> 0]))

\* The match of pass 2: the cell, or None for the panic "Isolated cell"
classify(clue_letter, a, d) ==
    IF a # None /\ d # None
      THEN Some(PuzzleCell_valued(clue_letter,
                  [kind |-> "Cross", across |-> a[1][2], down |-> d[1][2]],
                  [kind |-> "Cross", across |-> a[1][1], down |-> d[1][1]]))
    ELSE IF a # None
      THEN Some(PuzzleCell_valued(clue_letter,
                  [kind |-> "Across", across |-> a[1][2]],
                  [kind |-> "Across", across |-> a[1][1]]))
    ELSE IF d # None
      THEN Some(PuzzleCell_valued(clue_letter,
                  [kind |-> "Down", down |-> d[1][2]],
                  [kind |-> "Down", down |-> d[1][1]]))
    ELSE None

\* Pass 2 at one cell
pass2_cell(sol, st, row, col) ==
    IF is_filled(sol, row, col) THEN Some(PuzzleCell_filled)
    ELSE classify(sol[row + 1][col + 1],
                  across_info(sol, st, row, col), down_info(sol, st, row, col))

\* Pass 2 of from_solution and PuzzleGrid::new: None for a panic
pass2(sol, st) ==
    LET cells == (0..sol_height(sol) - 1) \X (0..sol_width(sol) - 1)
    IN  IF \E p \in cells : pass2_cell(sol, st, p[1], p[2]) = None THEN None
        ELSE Some([height |-> sol_height(sol), width |-> sol_width(sol),
                   cells |-> [p \in cells |-> pass2_cell(sol, st, p[1], p[2])[1]]])

----------------------------------------------------------------------------
(* The indexer as a state machine *)

MaxRows == 3            \* a solution has at most MaxRows rows
MaxCols == 3            \* and its rows at most MaxCols characters

SolChars == {".", "A"}

RECURSIVE SeqsOfLen(_, _)
SeqsOfLen(S, n) ==
    IF n = 0 THEN {<<>>} ELSE {Append(q, x) : q \in SeqsOfLen(S, n - 1), x \in S}

\* The rectangular solutions
Rectangles ==
    UNION {SeqsOfLen(SeqsOfLen(SolChars, w), h) : w \in 0..MaxCols, h \in 0..MaxRows}

\* Every rectangle, as it is and with its last row one character shorter or longer
Solutions ==
    Rectangles
    \cup {[sol EXCEPT ![Len(sol)] = SubSeq(@, 1, Len(@) - 1)] :
            sol \in {q \in Rectangles : Len(q) >= 2 /\ Len(q[1]) >= 1}}
    \cup {[sol EXCEPT ![Len(sol)] = Append(@, "A")] :
            sol \in {q \in Rectangles : Len(q) >= 2}}

GenIdle ==
    /\ gen = <<>>
    /\ seed = 0
    /\ pc = "idle"
    /\ attempt = 0
    /\ slots = <<>>
    /\ stack = <<>>
    /\ ret = "None"
    /\ result = NoResult
    /\ words_in = <<>>

InitIdx ==
    /\ solution \in Solutions
    /\ idx = None
    /\ pgrid = None
    /\ ipc = "start"
    /\ GenIdle
    /\ ApiIdle

\* from_solution up to the end of pass 1
from_solution_pass1 ==
    /\ ipc = "start"
    /\ idx' = pass1(solution)
    /\ ipc' = IF pass1(solution) = None THEN "panic" ELSE "pass1"
    /\ UNCHANGED <<solution, pgrid>>
    /\ UNCHANGED genVars
    /\ UNCHANGED apiVars

\* from_solution from pass 2 to its return
from_solution_pass2 ==
    /\ ipc = "pass1"
    /\ pgrid' = pass2(solution, idx[1])
    /\ ipc' = IF pass2(solution, idx[1]) = None THEN "panic" ELSE "done"
    /\ UNCHANGED <<solution, idx>>
    /\ UNCHANGED genVars
    /\ UNCHANGED apiVars

\* PuzzleGrid::to_par: the clue number of every cell of the grid
draw_numbers ==
    /\ ipc = "done"
    /\ ipc' = IF \E p \in DOMAIN pgrid[1].cells : to_no_spans(pgrid[1].cells[p]).res = "Panic"
                THEN "assertion failed" ELSE "drawn"
    /\ UNCHANGED <<solution, idx, pgrid>>
    /\ UNCHANGED genVars
    /\ UNCHANGED apiVars

NextIdx ==
    \/ from_solution_pass1
    \/ from_solution_pass2
    \/ draw_numbers

SpecIdx == InitIdx /\ [][NextIdx]_vars

----------------------------------------------------------------------------
(* A caller of the Crossword and Grid methods *)

MaxCalls == 3           \* at most MaxCalls calls besides is_complete
MaxNumber == 2          \* clue numbers range over 1..MaxNumber

\* (width, height) of the caller's crossword
ApiWidth == 3
ApiHeight == 2

\* The answers a caller passes: empty, one and two letters, lower case, and a
\* letter of two bytes
ApiAnswers == {<<>>, <<"A">>, <<"A", "B">>, <<"b", "a">>, <<"E'">>}

\* The clues a caller builds with Clue::new
ApiClues ==
    {Clue_new(number, direction, "x", answer, row, col) :
        number \in 1..MaxNumber, direction \in {Across, Down}, answer \in ApiAnswers,
        row \in 0..ApiHeight - 1, col \in 0..ApiWidth - 1}

\* The coordinates a caller passes: the grid and one row and column beyond it
ApiRows == 0..ApiHeight
ApiCols == 0..ApiWidth

\* The characters a player types
ApiInputs == {"A", "b"}

InitApi ==
    /\ puzzle = Crossword_new(ApiWidth, ApiHeight)
    /\ last_call = [op |-> "new"]
    /\ ncalls = 0
    /\ GenIdle
    /\ IdxIdle

\* The caller holds a crossword that no panic has unwound
Callable == last_call.op # "none" /\ (last_call.op = "add_clue" => last_call.res # "Panic")

call_add_clue ==
    /\ Callable
    /\ ncalls < MaxCalls
    /\ \E clue \in ApiClues :
          /\ puzzle' = add_clue(puzzle, clue).cw
          /\ last_call' = [op |-> "add_clue", clue |-> clue,
                           res |-> add_clue(puzzle, clue).res, before |-> puzzle]
    /\ ncalls' = ncalls + 1
    /\ UNCHANGED <<genVars, idxVars>>

call_set_blocked_cell ==
    /\ Callable
    /\ ncalls < MaxCalls
    /\ \E row \in ApiRows, col \in ApiCols :
          /\ puzzle' = set_blocked_cell(puzzle, row, col).cw
          /\ last_call' = [op |-> "set_cell", row |-> row, col |-> col,
                           res |-> set_blocked_cell(puzzle, row, col).res, before |-> puzzle]
    /\ ncalls' = ncalls + 1
    /\ UNCHANGED <<genVars, idxVars>>

call_set_user_input ==
    /\ Callable
    /\ ncalls < MaxCalls
    /\ \E row \in ApiRows, col \in ApiCols, c \in ApiInputs :
          /\ puzzle' = [puzzle EXCEPT !.grid = set_user_input(@, row, col, c).grid]
          /\ last_call' = [op |-> "set_user_input", row |-> row, col |-> col, c |-> c,
                           res |-> set_user_input(puzzle.grid, row, col, c).res,
                           before |-> puzzle]
    /\ ncalls' = ncalls + 1
    /\ UNCHANGED <<genVars, idxVars>>

call_clear_user_input ==
    /\ Callable
    /\ ncalls < MaxCalls
    /\ \E row \in ApiRows, col \in ApiCols :
          /\ puzzle' = [puzzle EXCEPT !.grid = clear_user_input(@, row, col).grid]
          /\ last_call' = [op |-> "clear_user_input", row |-> row, col |-> col,
                           res |-> clear_user_input(puzzle.grid, row, col).res,
                           before |-> puzzle]
    /\ ncalls' = ncalls + 1
    /\ UNCHANGED <<genVars, idxVars>>

call_get_cell ==
    /\ Callable
    /\ ncalls < MaxCalls
    /\ \E row \in ApiRows, col \in ApiCols :
          last_call' = [op |-> "get_cell", row |-> row, col |-> col,
                        res |-> get_cell(puzzle.grid, row, col), before |-> puzzle]
    /\ ncalls' = ncalls + 1
    /\ UNCHANGED <<puzzle, genVars, idxVars>>

\* The query of the game loop, asked after any other call
call_is_complete ==
    /\ Callable
    /\ last_call.op # "is_complete"
    /\ last_call' = [op |-> "is_complete", res |-> Crossword_is_complete(puzzle),
                     before |-> puzzle]
    /\ UNCHANGED <<puzzle, ncalls, genVars, idxVars>>

\* The check of the entries, asked after any call that is not a query
call_validate_solution ==
    /\ Callable
    /\ last_call.op \notin {"is_complete", "validate_solution"}
    /\ last_call' = [op |-> "validate_solution", res |-> validate_solution(puzzle),
                     before |-> puzzle]
    /\ UNCHANGED <<puzzle, ncalls, genVars, idxVars>>

NextApi ==
    \/ call_validate_solution
    \/ call_add_clue
    \/ call_set_blocked_cell
    \/ call_set_user_input
    \/ call_clear_user_input
    \/ call_get_cell
    \/ call_is_complete

SpecApi == InitApi /\ [][NextApi]_vars

----------------------------------------------------------------------------
(* The layout of an attempt, whatever the positional hash yields *)

MaxLayoutWidth == 4     \* the width ranges over 1..MaxLayoutWidth
MaxLayoutHeight == 4    \* the height over 1..MaxLayoutHeight

LayoutConfigs ==
    [width : 1..MaxLayoutWidth, height : 1..MaxLayoutHeight,
     max_words : {2}, min_words : {1}, symmetry : BOOLEAN, max_attempts : {1},
     prefer_longer_words : {TRUE}]

InitLayout ==
    /\ \E config \in LayoutConfigs : gen = CrosswordGenerator_new(config)
    /\ seed = 0
    /\ pc = "layout"
    /\ attempt = 0
    /\ slots = <<>>
    /\ stack = <<>>
    /\ ret = "None"
    /\ result = NoResult
    /\ words_in = <<>>
    /\ IdxIdle
    /\ ApiIdle

\* reset_grid, the hash being below the threshold on any set of cells
layout_reset_grid ==
    /\ pc = "layout"
    /\ \E hits \in SUBSET grid_positions(gen) :
          /\ gen.config.symmetry => hits \subseteq pattern_quadrant(gen)
          /\ gen' = reset_grid_on(gen, hits)
    /\ pc' = "reset"
    /\ UNCHANGED <<seed, attempt, slots, stack, ret, result, words_in>>
    /\ UNCHANGED <<idxVars, apiVars>>

\* find_word_slots on the pattern
layout_find_word_slots ==
    /\ pc = "reset"
    /\ slots' = find_word_slots(gen)
    /\ pc' = "slotted"
    /\ UNCHANGED <<gen, seed, attempt, stack, ret, result, words_in>>
    /\ UNCHANGED <<idxVars, apiVars>>

NextLayout ==
    \/ layout_reset_grid
    \/ layout_find_word_slots

SpecLayout == InitLayout /\ [][NextLayout]_vars

----------------------------------------------------------------------------
(* place_word and remove_last_word on their own *)

UndoConfigs ==
    [width : {d[1] : d \in Dims}, height : {d[2] : d \in Dims},
     max_words : {MaxWordsCfg}, min_words : {0}, symmetry : BOOLEAN,
     max_attempts : {1}, prefer_longer_words : {FALSE}]

InitUndo ==
    /\ \E config \in UndoConfigs : gen = CrosswordGenerator_new(config)
    /\ seed \in Seeds
    /\ pc = "new"
    /\ attempt = 0
    /\ slots = <<>>
    /\ stack = <<>>
    /\ ret = "None"
    /\ result = NoResult
    /\ words_in = <<>>
    /\ IdxIdle
    /\ ApiIdle

\* reset_grid and find_word_slots, as attempt_generation starts
undo_reset_grid ==
    /\ pc = "loop"
    /\ gen' = reset_grid(gen, seed)
    /\ slots' = find_word_slots(reset_grid(gen, seed))
    /\ pc' = "placing"
    /\ UNCHANGED <<seed, attempt, stack, ret, result, words_in>>
    /\ UNCHANGED <<idxVars, apiVars>>

\* The candidates of a slot that can be placed there
placeable(slot) ==
    {k \in 1..Len(find_candidate_words(gen, slot)) :
        can_place_word(gen, find_candidate_words(gen, slot)[k], slot)}

\* place_word of a candidate that backtrack would place in one of the slots
undo_place_word ==
    /\ pc \in {"placing", "undone"}
    /\ \E n \in 1..Len(slots) : \E k \in placeable(slots[n]) :
          gen' = place_word(gen, find_candidate_words(gen, slots[n])[k], slots[n])
    /\ pc' = "placing"
    /\ UNCHANGED <<seed, attempt, slots, stack, ret, result, words_in>>
    /\ UNCHANGED <<idxVars, apiVars>>

\* place_word of such a candidate, and remove_last_word at once
undo_place_and_remove ==
    /\ pc \in {"placing", "undone"}
    /\ \E n \in 1..Len(slots) : \E k \in placeable(slots[n]) :
          gen' = remove_last_word(
                    place_word(gen, find_candidate_words(gen, slots[n])[k], slots[n]))
    /\ pc' = "undone"
    /\ UNCHANGED <<seed, attempt, slots, stack, ret, result, words_in>>
    /\ UNCHANGED <<idxVars, apiVars>>

NextUndo ==
    \/ call_add_words
    \/ undo_reset_grid
    \/ undo_place_word
    \/ undo_place_and_remove

SpecUndo == InitUndo /\ [][NextUndo]_vars

----------------------------------------------------------------------------
(* Claims about the generator *)

\* A generator that has left new()
Constructed == pc # "idle"

\* The crossword generate returned
Returned == result.kind = "Ok"

\* Two placements of the search agree on every cell both reach
placements_agree(p, q) ==
    \A i \in 0..chars_count(p.word) - 1, j \in 0..chars_count(q.word) - 1 :
        slot_cell(p, i) = slot_cell(q, j) => p.word[i + 1] = q.word[j + 1]

\* Two clues agree on every cell both position lists hold
clues_agree(a, b) ==
    \A i \in 1..length(a), j \in 1..length(b) :
        positions(a)[i] = positions(b)[j]
            => chars_nth(a.answer, i - 1) = chars_nth(b.answer, j - 1)

clues_cross(a, b) ==
    \E i \in 1..length(a), j \in 1..length(b) : positions(a)[i] = positions(b)[j]

\* C1: in every crossword generate returns, two clues whose position sets
\* share a cell have the same character at that cell; the words of the search
\* agree in the same way at every moment, which is what can_place_word keeps.
C1_IntersectionConsistency ==
    Constructed =>
      /\ \A k, m \in 1..Len(gen.placed_words) :
            placements_agree(gen.placed_words[k], gen.placed_words[m])
      /\ Returned =>
            \A k, m \in 1..Len(result.crossword.clues) :
                clues_agree(result.crossword.clues[k], result.crossword.clues[m])

\* A returned crossword with an across and a down clue that cross
C1_Witness ==
    /\ Returned
    /\ \E k, m \in 1..Len(result.crossword.clues) :
          /\ result.crossword.clues[k].direction # result.crossword.clues[m].direction
          /\ clues_cross(result.crossword.clues[k], result.crossword.clues[m])

\* C2: generate returns Ok only with at least min_words clues, and fails when
\* no word survived the filter and min_words >= 1.
C2_MinWordsOrFailure ==
    Constructed =>
      /\ Returned => Len(result.crossword.clues) >= gen.config.min_words
      /\ (pc = "done" /\ gen.word_list = <<>> /\ gen.config.min_words >= 1)
            => result = MaxAttemptsExceeded

\* generate has returned a crossword of exactly min_words = 2 clues
C2_Witness ==
    /\ Returned
    /\ gen.config.min_words = 2
    /\ Len(result.crossword.clues) = 2

\* C3: no word is the answer of two clues of a returned crossword.
C3_NoWordTwice ==
    (Constructed /\ Returned) =>
        \A k, m \in 1..Len(result.crossword.clues) :
            result.crossword.clues[k].answer = result.crossword.clues[m].answer => k = m

\* The vocabulary held the word of a clue twice (in two cases, with two clue
\* texts), another slot of its length was open, and the crossword came back
C3_Witness ==
    /\ Returned
    /\ Len(result.crossword.clues) = 1
    /\ Len(slots) >= 2
    /\ \E k, m \in 1..Len(gen.word_list) :
          /\ k # m
          /\ gen.word_list[k].word = gen.word_list[m].word
          /\ gen.word_list[k].clue # gen.word_list[m].clue
          /\ gen.word_list[k].word = result.crossword.clues[1].answer
    /\ \E k, m \in 1..Len(words_in) : k # m /\ words_in[k][1] # words_in[m][1]

\* A word add_words must not take: fewer than 3 characters, or a character
\* that is not alphabetic
unfit(word) ==
    chars_count(word) < 3 \/ \E i \in 1..Len(word) : ~ is_alphabetic(word[i])

\* C4 as claimed: an entry with fewer than 3 characters or a non-alphabetic
\* character is never accepted by add_words, and every answer of a returned
\* crossword has at least 3 characters, all alphabetic.
C4_Filtering ==
    (Constructed /\ pc # "new") =>
      /\ \A k \in 1..Len(words_in) :
            unfit(words_in[k][1]) =>
                ~ \E m \in 1..Len(gen.word_list) :
                      gen.word_list[m].word = to_uppercase(words_in[k][1])
      /\ Returned => \A k \in 1..Len(result.crossword.clues) :
                        ~ unfit(result.crossword.clues[k].answer)

\* The grid cell a clue's i-th position names, i from 1
cell_holds(cw, clue, i) ==
    LET p == positions(clue)[i]
    IN  /\ p[1] < cw.grid.height
        /\ p[2] < cw.grid.width
        /\ p \in DOMAIN cw.grid.cells
        /\ cw.grid.cells[p].kind = "Letter"
        /\ Some(cw.grid.cells[p].correct) = chars_nth(clue.answer, i - 1)

\* C5: in a returned crossword every clue has as many positions as its answer
\* has characters, every position is inside the grid and holds, as a Letter,
\* the character of the answer at that index, and the grid has the configured
\* size; during the search every placed word stands in the grid in this way.
C5_CluesOnGrid ==
    Constructed =>
      /\ \A k \in 1..Len(gen.placed_words) :
            \A i \in 0..chars_count(gen.placed_words[k].word) - 1 :
                LET p == slot_cell(gen.placed_words[k], i)
                IN  /\ p \in DOMAIN gen.grid.cells
                    /\ gen.grid.cells[p].kind = "Letter"
                    /\ gen.grid.cells[p].correct = gen.placed_words[k].word[i + 1]
      /\ Returned =>
            LET cw == result.crossword
            IN  /\ cw.grid.width = gen.config.width
                /\ cw.grid.height = gen.config.height
                /\ DOMAIN cw.grid.cells = (0..cw.grid.height - 1) \X (0..cw.grid.width - 1)
                /\ \A k \in 1..Len(cw.clues) :
                      /\ Len(positions(cw.clues[k])) = chars_count(cw.clues[k].answer)
                      /\ \A i \in 1..length(cw.clues[k]) : cell_holds(cw, cw.clues[k], i)

\* A returned crossword on the 3 x 4 grid with a clue of four letters
C5_Witness ==
    /\ Returned
    /\ gen.config.height = 4
    /\ \E k \in 1..Len(result.crossword.clues) :
          /\ length(result.crossword.clues[k]) = 4
          /\ result.crossword.clues[k].direction = Down

\* C6 as claimed: whatever happens inside an attempt, generate ends by
\* returning Ok(crossword) or Err(MaxAttemptsExceeded).
C6_OkOrMaxAttempts ==
    (Constructed /\ pc = "done") => (Returned \/ result = MaxAttemptsExceeded)

\* The bounds of generate: at most max_attempts attempts (none, and
\* MaxAttemptsExceeded, when max_attempts = 0), and a recursion of backtrack
\* never deeper than the number of slots plus one.
C7_Bounded ==
    Constructed =>
      /\ attempt <= gen.config.max_attempts
      /\ pc = "search" => attempt < gen.config.max_attempts
      /\ Len(stack) <= Len(slots) + 1
      /\ (pc = "done" /\ gen.config.max_attempts = 0)
            => (result = MaxAttemptsExceeded /\ slots = <<>>)

\* What one call of backtrack on slot i can still take before it returns: its
\* entry, its placement or skip, the call on slot i + 1, and its return
backtrack_steps(i) == 3 * (Len(slots) - i) + 1

\* The steps the search can still take before fill_slots_with_backtracking
\* returns
search_steps ==
    IF stack = <<>> THEN 0
    ELSE IF ret # "None" THEN Len(stack)
    ELSE IF stack[Len(stack)].at = "entry"
      THEN backtrack_steps(stack[Len(stack)].slot_index) + Len(stack) - 1
    ELSE backtrack_steps(stack[Len(stack)].slot_index) + Len(stack) - 2

\* More than one attempt can take: a word slot starts in a cell, in one of
\* two directions
attempt_steps == 6 * gen.config.width * gen.config.height + 3

\* The steps generate can still take before it ends
steps_left ==
    IF pc = "done" THEN 0
    ELSE IF pc = "new" THEN (gen.config.max_attempts + 1) * attempt_steps
    ELSE IF pc = "loop" THEN (gen.config.max_attempts - attempt) * attempt_steps + 1
    ELSE (gen.config.max_attempts - attempt - 1) * attempt_steps + 2 + search_steps

\* A step is enabled: the guards of call_add_words, generate_loop,
\* backtrack_enter, backtrack_try, backtrack_return and attempt_end
can_step ==
    \/ pc = "new"
    \/ pc = "loop"
    \/ pc = "search" /\ ret = "None" /\ stack # <<>> /\ Top.at \in {"entry", "loop"}
    \/ pc = "search" /\ ret # "None"

\* C7: generate always ends (by a return, or by the unwinding of a panic):
\* until it has ended it can take a step, and every step lowers the natural
\* number steps_left; on the way it never runs more than max_attempts attempts
\* nor recurses deeper than the number of slots plus one.
C7_Terminates ==
    /\ [] C7_Bounded
    /\ [] (steps_left \in Nat /\ (pc # "done" => can_step))
    /\ [][steps_left' < steps_left]_vars

\* The last allowed attempt is searching, at the deepest level of the recursion
C7_Witness ==
    /\ pc = "search"
    /\ attempt = gen.config.max_attempts - 1
    /\ attempt >= 1
    /\ Len(slots) >= 2
    /\ Len(stack) = Len(slots) + 1

\* C19: in a returned crossword every clue number is at least 1 and no two
\* clues of one direction carry the same number, also when an across and a
\* down word start in one cell.
C19_NumbersUnique ==
    (Constructed /\ Returned) =>
        \A k, m \in 1..Len(result.crossword.clues) :
            LET a == result.crossword.clues[k]
                b == result.crossword.clues[m]
            IN  /\ a.number >= 1
                /\ (k # m /\ a.direction = b.direction) => a.number # b.number

\* A returned crossword with an across and a down clue that start in one cell
C19_Witness ==
    /\ Returned
    /\ \E k, m \in 1..Len(result.crossword.clues) :
          LET a == result.crossword.clues[k]
              b == result.crossword.clues[m]
          IN  /\ a.direction = Across
              /\ b.direction = Down
              /\ a.row = b.row
              /\ a.col = b.col

\* C20 as claimed: place_word of a compatible candidate followed at once by
\* remove_last_word leaves the grid, the placement stack, the word-start map
\* and the next clue number as they were.
C20_UndoRestores == [][pc' = "undone" => gen' = gen]_vars

\* C22: at every moment of the search at most max_words words are placed, and
\* a crossword generate returns has at most max_words clues (none when
\* max_words is 0).
C22_AtMostMaxWords ==
    Constructed =>
      /\ Len(gen.placed_words) <= gen.config.max_words
      /\ Returned => Len(result.crossword.clues) <= gen.config.max_words

\* A returned crossword that max_words cut short: a slot and an unused word of
\* its length were left
C22_Witness ==
    /\ Returned
    /\ Len(result.crossword.clues) = gen.config.max_words
    /\ gen.config.max_words >= 1
    /\ \E n \in 1..Len(slots) : \E k \in 1..Len(gen.word_list) :
          /\ ~ \E m \in 1..Len(gen.placed_words) :
                  <<gen.placed_words[m].row, gen.placed_words[m].col,
                    gen.placed_words[m].direction>>
                      = <<slots[n].row, slots[n].col, slots[n].direction>>
          /\ ~ is_word_already_used(gen, gen.word_list[k].word)
          /\ can_place_word(gen, gen.word_list[k], slots[n])
          /\ entry_len(gen.word_list[k]) = slots[n].length

\* An attempt of generate is about to search: reset_grid and find_word_slots
\* are done, the first activation of backtrack has not looked at anything yet
AttemptStart == pc = "search" /\ stack = <<Frame(0)>>

\* C23: at the start of every attempt the grid holds only Empty and Blocked
\* cells, no word is placed, the word-start map is empty, the next clue number
\* is 1, and the blocked pattern is the one a fresh generator of the same
\* configuration gets; but for the vocabulary order the generator is that
\* fresh generator after reset_grid.
C23_AttemptsStartClean ==
    AttemptStart =>
      LET fresh == reset_grid(CrosswordGenerator_new(gen.config), seed)
      IN  /\ \A p \in DOMAIN gen.grid.cells : gen.grid.cells[p].kind \in {"Empty", "Blocked"}
          /\ gen.placed_words = <<>>
          /\ gen.word_starts = <<>>
          /\ gen.next_clue_number = 1
          /\ gen.blocked_positions = fresh.blocked_positions
          /\ \A p \in DOMAIN gen.grid.cells :
                gen.grid.cells[p].kind = "Blocked" <=> p \in fresh.blocked_positions
          /\ gen = [fresh EXCEPT !.word_list = gen.word_list]

\* The second attempt starts after a first one that placed a word on a
\* pattern with a blocked cell
C23_Witness ==
    /\ AttemptStart
    /\ attempt >= 1
    /\ gen.blocked_positions # {}
    /\ gen.config.max_words >= 1
    /\ \E n \in 1..Len(slots) : \E k \in 1..Len(gen.word_list) :
          entry_len(gen.word_list[k]) = slots[n].length

\* The clues of the returned crossword that start in cell p
StartingAt(p) ==
    {k \in 1..Len(result.crossword.clues) :
        <<result.crossword.clues[k].row, result.crossword.clues[k].col>> = p}

\* C24: in a returned crossword a Letter cell carries a number iff a clue
\* starts in it, and the number is that of every clue starting there, also
\* when a word placed later crosses the first cell of an earlier word.
C24_NumberIffStart ==
    (Constructed /\ Returned) =>
        \A p \in DOMAIN result.crossword.grid.cells :
            LET cell == result.crossword.grid.cells[p]
            IN  cell.kind = "Letter" =>
                  /\ cell.number # None <=> StartingAt(p) # {}
                  /\ \A k \in StartingAt(p) :
                        cell.number = Some(result.crossword.clues[k].number)

\* A returned crossword in which a later clue passes, past its own first
\* cell, through the cell an earlier clue starts in
C24_Witness ==
    /\ Returned
    /\ \E k, m \in 1..Len(result.crossword.clues) :
          /\ k < m
          /\ \E i \in 2..length(result.crossword.clues[m]) :
                positions(result.crossword.clues[m])[i]
                    = <<result.crossword.clues[k].row, result.crossword.clues[k].col>>

\* The cells next to p in its row and in its column
Adjacent(p) ==
    {<<p[1] - 1, p[2]>>, <<p[1] + 1, p[2]>>, <<p[1], p[2] - 1>>, <<p[1], p[2] + 1>>}

\* C26: in a crossword generate returns, every Letter cell has a Letter cell
\* next to it in its row or in its column, so that from_solution meets no
\* isolated cell in it.
C26_NoIsolatedLetter ==
    (Constructed /\ Returned) =>
        \A p \in DOMAIN result.crossword.grid.cells :
            result.crossword.grid.cells[p].kind = "Letter" =>
                \E q \in Adjacent(p) \cap DOMAIN result.crossword.grid.cells :
                    result.crossword.grid.cells[q].kind = "Letter"

\* A crossword was returned, with a word in it, from a vocabulary that also
\* held a word of a single character
C26_Witness ==
    /\ Returned
    /\ result.crossword.clues # <<>>
    /\ \E k \in 1..Len(gen.word_list) : chars_count(gen.word_list[k].word) = 1

\* A call of backtrack has just returned to the activation that made it
Returning == pc = "search" /\ ret # "None" /\ stack # <<>>

\* C27: backtrack never returns an error, so within an attempt no placed word
\* is taken back: the activation a call returns to returns at once with the
\* same value and leaves the generator alone (remove_last_word does not run),
\* and while the search runs the placed words only grow and the next clue
\* number does not decrease.
C27_NeverUndone ==
    /\ [] (ret \in {"None", "Ok"})
    /\ [][Returning => (stack' = Pop /\ gen' = gen /\ ret' = ret)]_vars
    /\ [][(pc = "search" /\ pc' = "search") =>
              /\ gen'.next_clue_number >= gen.next_clue_number
              /\ Len(gen'.placed_words) >= Len(gen.placed_words)
              /\ SubSeq(gen'.placed_words, 1, Len(gen.placed_words)) = gen.placed_words]_vars

\* A call of backtrack returns to an activation that has placed a word, after
\* an earlier slot was left without one
C27_Witness ==
    /\ Returning
    /\ Top.at = "placed"
    /\ \E n \in 1..Len(stack) : stack[n].at = "skipped"

\* The configuration of the run with prefer_longer_words the other way
OtherPreference == [gen.config EXCEPT !.prefer_longer_words = ~ @]

\* C29: what generate_crossword hands back (the crossword with its clues in
\* their order and its grid, the error, or the panic) is what it hands back
\* for the same words and the same configuration with prefer_longer_words
\* the other way.
C29_PreferenceIrrelevant ==
    pc = "done" => result = generate_crossword(OtherPreference, words_in, seed)

\* A crossword of two clues was returned for words that add_words orders
\* differently under the two values of the flag
C29_Witness ==
    /\ pc = "done"
    /\ Returned
    /\ Len(result.crossword.clues) >= 2
    /\ add_words(CrosswordGenerator_new(gen.config), words_in).word_list
          # add_words(CrosswordGenerator_new(OtherPreference), words_in).word_list

\* The configuration of the run with max_attempts = 2
TwoAttempts == [gen.config EXCEPT !.max_attempts = 2]

\* C28: with max_attempts >= 2 no attempt after the second is accepted (nor
\* panics), and generate_crossword hands back what it hands back for the same
\* words and the same configuration with max_attempts = 2.
C28_TwoAttemptsSuffice ==
    (pc = "done" /\ gen.config.max_attempts >= 2) =>
      /\ attempt >= 2 => result = MaxAttemptsExceeded
      /\ result = generate_crossword(TwoAttempts, words_in, seed)

\* generate has given up after more than two attempts, the vocabulary holding
\* one word twice with two clues, which every reshuffle swaps
C28_Witness ==
    /\ pc = "done"
    /\ attempt >= 3
    /\ result = MaxAttemptsExceeded
    /\ Len(slots) >= 1
    /\ \E k, m \in 1..Len(gen.word_list) :
          /\ k # m
          /\ gen.word_list[k].word = gen.word_list[m].word
          /\ gen.word_list[k].clue # gen.word_list[m].clue

\* The step of backtrack that tries the candidates of the slot of the running
\* activation
TryingSlot == pc = "search" /\ ret = "None" /\ stack # <<>> /\ Top.at = "loop"

\* The vocabulary entries that are candidates for a slot: as many letters as
\* the slot has cells, and not placed already
CandidatesOf(slot) ==
    {k \in 1..Len(gen.word_list) :
        /\ chars_count(gen.word_list[k].word) = slot.length
        /\ \A m \in 1..Len(gen.placed_words) :
              gen.placed_words[m].word # gen.word_list[k].word}

\* The candidates that meet, in every cell of the slot, an Empty cell or their
\* own letter
FittingOf(slot) ==
    {k \in CandidatesOf(slot) :
        \A i \in 0..slot.length - 1 :
            LET cell == gen.grid.cells[slot_cell(slot, i)]
            IN  \/ cell.kind = "Empty"
                \/ cell.kind = "Letter" /\ cell.correct = gen.word_list[k].word[i + 1]}

\* The first fitting candidate of the slot went into it, or none did
TriedInOrder(slot) ==
    IF FittingOf(slot) # {}
      THEN LET k == CHOOSE k \in FittingOf(slot) : \A j \in FittingOf(slot) : k <= j
           IN  /\ Len(gen'.placed_words) = Len(gen.placed_words) + 1
               /\ LET p == gen'.placed_words[Len(gen'.placed_words)]
                  IN  /\ p.word = gen.word_list[k].word
                      /\ p.clue = gen.word_list[k].clue
                      /\ <<p.row, p.col, p.direction>> = <<slot.row, slot.col, slot.direction>>
               /\ \A i \in 0..slot.length - 1 :
                     /\ gen'.grid.cells[slot_cell(slot, i)].kind = "Letter"
                     /\ gen'.grid.cells[slot_cell(slot, i)].correct = gen.word_list[k].word[i + 1]
      ELSE gen' = gen

\* C21 as claimed: for each slot in slot order backtrack places the first
\* word, in vocabulary order, that has the slot's length, is not placed and
\* meets only Empty cells or its own letters; when there is none the slot stays
\* without a word; either way the search goes on with the next slot.
C21_GreedyInOrder ==
    [][TryingSlot =>
          /\ TriedInOrder(slots[Top.slot_index + 1])
          /\ Len(stack') = Len(stack) + 1
          /\ stack'[Len(stack')] = Frame(Top.slot_index + 1)]_vars

----------------------------------------------------------------------------
(* Claims about the indexer *)

\* The cells of the grid from_solution lays out
sol_cells == (0..sol_height(solution) - 1) \X (0..sol_width(solution) - 1)

\* A cell of the grid that is not the blocked marker
Open(r, c) == <<r, c>> \in sol_cells /\ solution[r + 1][c + 1] # "."

Rectangular == \A r \in 1..Len(solution) : Len(solution[r]) = Len(solution[1])

\* p comes before q in row-major order
Before(p, q) == p[1] < q[1] \/ (p[1] = q[1] /\ p[2] < q[2])

\* Where the crossword convention starts words
StartsAcross(p) == Open(p[1], p[2]) /\ ~ Open(p[1], p[2] - 1) /\ Open(p[1], p[2] + 1)
StartsDown(p) == Open(p[1], p[2]) /\ ~ Open(p[1] - 1, p[2]) /\ Open(p[1] + 1, p[2])
Starters == {p \in sol_cells : StartsAcross(p) \/ StartsDown(p)}

\* The number of the k-th starter is k
Rank(p) == 1 + Cardinality({q \in Starters : Before(q, p)})

Pass1Done == ipc \in {"pass1", "done"} \/ (ipc = "panic" /\ idx # None)

\* C8: after pass 1 a cell carries an across (down) number iff it starts an
\* across (down) word; the k-th starting cell in row-major order carries k, the
\* same for both directions; a cell that starts nothing carries none; the
\* counter ends one above the number of starting cells.
C8_Numbering ==
    Pass1Done =>
      /\ \A p \in sol_cells :
            /\ idx[1].across_clue_at[p] = (IF StartsAcross(p) THEN Some(Rank(p)) ELSE None)
            /\ idx[1].down_clue_at[p] = (IF StartsDown(p) THEN Some(Rank(p)) ELSE None)
      /\ idx[1].current_number = Cardinality(Starters) + 1
      /\ \A p, q \in Starters : Before(p, q) => Rank(p) < Rank(q)

\* Pass 1 has numbered three starting cells, one of them starting both an
\* across and a down word, and left another open cell without a number
C8_Witness ==
    /\ ipc = "pass1"
    /\ idx[1].current_number = 4
    /\ \E p \in sol_cells :
          idx[1].across_clue_at[p] # None /\ idx[1].across_clue_at[p] = idx[1].down_clue_at[p]
    /\ \E p \in sol_cells :
          Open(p[1], p[2]) /\ idx[1].across_clue_at[p] = None /\ idx[1].down_clue_at[p] = None

\* The first cell of the maximal open run through (r, c), along the row and
\* along the column
RunLeft(r, c) == CHOOSE k \in 0..c :
    /\ \A j \in k..c : Open(r, j)
    /\ ~ Open(r, k - 1)
RunTop(r, c) == CHOOSE k \in 0..r :
    /\ \A j \in k..r : Open(j, c)
    /\ ~ Open(k - 1, c)

InAcross(val) == val.clue_no.kind \in {"Across", "Cross"}
InDown(val) == val.clue_no.kind \in {"Down", "Cross"}

\* C9: on a rectangular solution from_solution returns for, an open cell is in
\* an across word iff it has an open neighbour to its left or right; its across
\* number is then the pass 1 number of the first cell of its horizontal run and
\* its across offset the distance to that cell; the same holds for down, with
\* the vertical run.
C9_Membership ==
    (ipc = "done" /\ Rectangular) =>
      \A p \in sol_cells :
        LET val == pgrid[1].cells[p].val
            r == p[1]
            c == p[2]
        IN  Open(r, c) =>
              /\ val.kind = "Letter"
              /\ InAcross(val) <=> (Open(r, c - 1) \/ Open(r, c + 1))
              /\ InDown(val) <=> (Open(r - 1, c) \/ Open(r + 1, c))
              /\ InAcross(val) =>
                    /\ Some(val.clue_no.across) = idx[1].across_clue_at[<<r, RunLeft(r, c)>>]
                    /\ val.word_idx.across = c - RunLeft(r, c)
              /\ InDown(val) =>
                    /\ Some(val.clue_no.down) = idx[1].down_clue_at[<<RunTop(r, c), c>>]
                    /\ val.word_idx.down = r - RunTop(r, c)

\* A grid came back with a cell two steps into its across word and one step
\* into its down word, under two different numbers
C9_Witness ==
    /\ ipc = "done"
    /\ Rectangular
    /\ \E p \in sol_cells :
          LET val == pgrid[1].cells[p].val
          IN  /\ val.kind = "Letter"
              /\ val.clue_no.kind = "Cross"
              /\ val.word_idx.across = 2
              /\ val.word_idx.down = 1
              /\ val.clue_no.across # val.clue_no.down

\* C10: every letter cell from_solution builds is of the same kind (Across,
\* Down or Cross) in clue_no and in word_idx.
C10_SameKind ==
    ipc = "done" =>
      \A p \in sol_cells :
          LET val == pgrid[1].cells[p].val
          IN  val.kind = "Letter" => val.clue_no.kind = val.word_idx.kind

\* A grid came back that holds cells of all three kinds
C10_Witness ==
    /\ ipc = "done"
    /\ \A kind \in {"Across", "Down", "Cross"} :
          \E p \in sol_cells :
              /\ pgrid[1].cells[p].val.kind = "Letter"
              /\ pgrid[1].cells[p].val.clue_no.kind = kind
              /\ pgrid[1].cells[p].val.word_idx.kind = kind

\* An open cell without an open neighbour
Isolated(p) ==
    /\ Open(p[1], p[2])
    /\ ~ Open(p[1], p[2] - 1)
    /\ ~ Open(p[1], p[2] + 1)
    /\ ~ Open(p[1] - 1, p[2])
    /\ ~ Open(p[1] + 1, p[2])

\* C11: on a non-empty rectangular solution from_solution panics iff some open
\* cell has no open neighbour, and it does so in pass 2; in every other case it
\* returns a grid of the solution's height and width, one cell per position.
C11_IsolatedPanics ==
    (Rectangular /\ solution # <<>> /\ ipc # "start") =>
      /\ idx # None
      /\ ipc = "panic" => \E p \in sol_cells : Isolated(p)
      /\ ipc = "done" =>
            /\ ~ \E p \in sol_cells : Isolated(p)
            /\ pgrid[1].height = Len(solution)
            /\ pgrid[1].width = Len(solution[1])
            /\ DOMAIN pgrid[1].cells = sol_cells

\* from_solution has panicked in pass 2 on a rectangular solution that holds a
\* cell of no word next to a word of three cells
C11_Witness ==
    /\ ipc = "panic"
    /\ idx # None
    /\ Rectangular
    /\ \E p \in sol_cells : Isolated(p)
    /\ \E p \in sol_cells : idx[1].across_clue_at[p] # None /\ Open(p[1], p[2] + 2)

----------------------------------------------------------------------------
(* Claims about the Grid and Crossword methods *)

\* The player has put the correct character into cell p
Solved(g, p) ==
    /\ g.cells[p].user_input # None
    /\ g.cells[p].user_input[1] = g.cells[p].correct

\* C12: is_complete answers true iff every Letter cell of the grid holds, as
\* user_input, its correct character; the Empty and Blocked cells do not count.
C12_IsComplete ==
    last_call.op = "is_complete" =>
        (last_call.res <=>
            \A p \in DOMAIN puzzle.grid.cells :
                puzzle.grid.cells[p].kind = "Letter" => Solved(puzzle.grid, p))

\* is_complete has answered true on a grid with a Letter, a Blocked and an
\* Empty cell
C12_Witness ==
    /\ last_call.op = "is_complete"
    /\ last_call.res
    /\ \A kind \in {"Letter", "Blocked", "Empty"} :
          \E p \in DOMAIN puzzle.grid.cells : puzzle.grid.cells[p].kind = kind

\* The coordinate of the last call lies outside the grid it was made on
OutOfBounds ==
    \/ last_call.row >= last_call.before.grid.height
    \/ last_call.col >= last_call.before.grid.width

\* The last call addressed a cell that is Empty or Blocked
NoLetter ==
    /\ ~ OutOfBounds
    /\ last_call.before.grid.cells[<<last_call.row, last_call.col>>].kind
          \in {"Empty", "Blocked"}

\* C13: the Grid accessors fail without changing the grid: set_cell returns an
\* error out of bounds, get_cell returns nothing out of bounds, and
\* set_user_input and clear_user_input return an error out of bounds and on an
\* Empty or Blocked cell.
C13_AccessorsFail ==
    /\ (last_call.op = "set_cell" /\ OutOfBounds)
          => (last_call.res = "Err" /\ puzzle = last_call.before)
    /\ (last_call.op = "get_cell" /\ OutOfBounds)
          => (last_call.res = None /\ puzzle = last_call.before)
    /\ (last_call.op \in {"set_user_input", "clear_user_input"} /\ (OutOfBounds \/ NoLetter))
          => (last_call.res = "Err" /\ puzzle = last_call.before)

\* set_user_input has failed on a Blocked cell of a grid that holds a Letter
C13_Witness ==
    /\ last_call.op = "set_user_input"
    /\ last_call.res = "Err"
    /\ NoLetter
    /\ puzzle.grid.cells[<<last_call.row, last_call.col>>].kind = "Blocked"
    /\ \E p \in DOMAIN puzzle.grid.cells : puzzle.grid.cells[p].kind = "Letter"

\* Cell p is a Letter before and after the last call, with one correct
\* character
KeepsLetter(p) ==
    LET old == last_call.before.grid.cells[p]
        new == puzzle.grid.cells[p]
    IN  old.kind = "Letter" => (new.kind = "Letter" /\ new.correct = old.correct)

\* The last call changed at most the user_input of the cell it addressed
OnlyUserInput ==
    /\ puzzle.clues = last_call.before.clues
    /\ puzzle.grid.width = last_call.before.grid.width
    /\ puzzle.grid.height = last_call.before.grid.height
    /\ DOMAIN puzzle.grid.cells = DOMAIN last_call.before.grid.cells
    /\ \A p \in DOMAIN puzzle.grid.cells :
          LET old == last_call.before.grid.cells[p]
              new == puzzle.grid.cells[p]
          IN  \/ new = old
              \/ /\ p = <<last_call.row, last_call.col>>
                 /\ old.kind = "Letter"
                 /\ new = [old EXCEPT !.user_input = new.user_input]

\* C14: a call of add_clue, set_user_input or clear_user_input, whether it
\* succeeds or fails, leaves every Letter cell a Letter with the same correct
\* character; set_user_input and clear_user_input change nothing but the
\* user_input of the cell they address.
C14_CorrectIsFixed ==
    /\ last_call.op \in {"add_clue", "set_user_input", "clear_user_input"}
          => \A p \in DOMAIN last_call.before.grid.cells : KeepsLetter(p)
    /\ last_call.op \in {"set_user_input", "clear_user_input"} => OnlyUserInput

\* add_clue has succeeded across a Letter cell that already held a player's
\* input
C14_Witness ==
    /\ last_call.op = "add_clue"
    /\ last_call.res = "Ok"
    /\ length(last_call.clue) = 2
    /\ \E k \in 1..length(last_call.clue) :
          LET p == positions(last_call.clue)[k]
          IN  /\ last_call.before.grid.cells[p].kind = "Letter"
              /\ last_call.before.grid.cells[p].user_input # None
              /\ puzzle.grid.cells[p] = last_call.before.grid.cells[p]

\* Some derived position of the clue lies outside the grid
LeavesGrid(cw, clue) ==
    \E k \in 1..Len(positions(clue)) :
        \/ positions(clue)[k][1] >= cw.grid.height
        \/ positions(clue)[k][2] >= cw.grid.width

\* C15: add_clue with an empty answer, or with a derived position outside the
\* grid, returns an error and leaves the grid and the clue list as they were.
C15_RejectsEarly ==
    (/\ last_call.op = "add_clue"
     /\ (last_call.clue.answer = <<>> \/ LeavesGrid(last_call.before, last_call.clue)))
        => (last_call.res = "Err" /\ puzzle = last_call.before)

\* add_clue has rejected a clue that starts on an Empty cell of a grid with a
\* Letter and ends outside the grid
C15_Witness ==
    /\ last_call.op = "add_clue"
    /\ last_call.res = "Err"
    /\ puzzle = last_call.before
    /\ length(last_call.clue) = 2
    /\ LeavesGrid(last_call.before, last_call.clue)
    /\ puzzle.grid.cells[<<last_call.clue.row, last_call.clue.col>>].kind = "Empty"
    /\ \E p \in DOMAIN puzzle.grid.cells : puzzle.grid.cells[p].kind = "Letter"

\* C16 as claimed: add_clue appends the clue only when it succeeds, and when it
\* returns an error the clue list and every cell are as before the call.
C16_Atomic ==
    last_call.op = "add_clue" =>
      /\ last_call.res = "Ok" => puzzle.clues = Append(last_call.before.clues, last_call.clue)
      /\ last_call.res = "Err" => puzzle = last_call.before

----------------------------------------------------------------------------
(* Claims about the layout *)

\* The cell is on the grid and not blocked
Free(p) == p \in grid_positions(gen) /\ p \notin gen.blocked_positions

\* The maximal runs of at least three free cells, as slots
Runs ==
    {s \in [row : 0..gen.config.height - 1, col : 0..gen.config.width - 1,
            length : 3..MaxLayoutWidth + MaxLayoutHeight, direction : {Across, Down}] :
        /\ \A i \in 0..s.length - 1 : Free(slot_cell(s, i))
        /\ ~ Free(slot_cell(s, -1))
        /\ ~ Free(slot_cell(s, s.length))}

\* C17: find_word_slots returns the maximal runs of at least three free cells
\* of the rows (Across) and of the columns (Down), each once, the longer ones
\* first.
C17_SlotsAreRuns ==
    pc = "slotted" =>
      /\ {slots[k] : k \in 1..Len(slots)} = Runs
      /\ Len(slots) = Cardinality(Runs)
      /\ \A k \in 1..Len(slots) - 1 : slots[k].length >= slots[k + 1].length

\* find_word_slots has returned slots of both directions and of the lengths 3
\* and 4, one of them ending at a blocked cell
C17_Witness ==
    /\ pc = "slotted"
    /\ \E k, m \in 1..Len(slots) :
          /\ slots[k].direction = Across
          /\ slots[m].direction = Down
          /\ slots[k].length = 4
          /\ slots[m].length = 3
          /\ slot_cell(slots[m], 3) \in gen.blocked_positions

\* The cell a rotation of the grid by 180 degrees takes p to
Rotated(p) == <<gen.config.height - 1 - p[1], gen.config.width - 1 - p[2]>>

\* C18: with symmetry, whatever cells the hash selects, the blocked set of the
\* attempt is closed under the rotation by 180 degrees, it lies on the grid,
\* and the grid holds Blocked at each of its positions.
C18_RotationalSymmetry ==
    (pc \in {"reset", "slotted"} /\ gen.config.symmetry) =>
      /\ gen.blocked_positions \subseteq grid_positions(gen)
      /\ \A p \in grid_positions(gen) :
            p \in gen.blocked_positions <=> Rotated(p) \in gen.blocked_positions
      /\ \A p \in gen.blocked_positions : gen.grid.cells[p] = Blocked

\* A symmetric pattern on the 4 x 3 grid that blocks two pairs of cells and
\* leaves others free
C18_Witness ==
    /\ pc = "reset"
    /\ gen.config.symmetry
    /\ gen.config.width = 4
    /\ gen.config.height = 3
    /\ Cardinality(gen.blocked_positions) = 4
    /\ <<0, 1>> \in gen.blocked_positions
    /\ <<2, 2>> \in gen.blocked_positions
    /\ gen.grid.cells[<<1, 1>>] = Empty


\* Cell p lies on a clue of the crossword
OnClue(cw, p) ==
    \E k \in 1..Len(cw.clues) : \E i \in 1..length(cw.clues[k]) :
        positions(cw.clues[k])[i] = p

\* Cell p holds an entered letter that is not its correct one
Disagrees(cw, p) ==
    /\ cw.grid.cells[p].kind = "Letter"
    /\ cw.grid.cells[p].user_input # None
    /\ cw.grid.cells[p].user_input[1] # cw.grid.cells[p].correct

\* C25: validate_solution reports a cell iff it lies on a clue and holds an
\* entered letter different from its correct one; so the list is empty iff no
\* entered letter on a clue disagrees, and it is empty on a grid that
\* is_complete.
C25_ValidateSolution ==
    last_call.op = "validate_solution" =>
      /\ \A p \in DOMAIN puzzle.grid.cells :
            (\E n \in 1..Len(last_call.res) :
                <<last_call.res[n].row, last_call.res[n].col>> = p)
              <=> (OnClue(puzzle, p) /\ Disagrees(puzzle, p))
      /\ \A n \in 1..Len(last_call.res) :
            <<last_call.res[n].row, last_call.res[n].col>> \in DOMAIN puzzle.grid.cells
      /\ last_call.res = <<>> <=>
            ~ \E p \in DOMAIN puzzle.grid.cells : OnClue(puzzle, p) /\ Disagrees(puzzle, p)
      /\ Crossword_is_complete(puzzle) => last_call.res = <<>>

\* validate_solution has reported a cell of a clue that has another cell
\* without any input
C25_Witness ==
    /\ last_call.op = "validate_solution"
    /\ last_call.res # <<>>
    /\ \E p \in DOMAIN puzzle.grid.cells :
          /\ OnClue(puzzle, p)
          /\ puzzle.grid.cells[p].kind = "Letter"
          /\ puzzle.grid.cells[p].user_input = None



\* The letter cell starts both its across and its down word
StartsBoth(cell) ==
    /\ cell.val.kind = "Letter"
    /\ cell.val.word_idx.kind = "Cross"
    /\ cell.val.word_idx.across = 0
    /\ cell.val.word_idx.down = 0

\* C30: in a grid from_solution built, a cell whose offsets are Cross(0, 0)
\* has the same across and down clue number, so the assertion of to_no_spans
\* holds on every cell when the grid is drawn, and the cell shows that number.
C30_CrossStartsAgree ==
    /\ ipc \in {"done", "drawn", "assertion failed"} =>
          \A p \in sol_cells :
              StartsBoth(pgrid[1].cells[p]) =>
                /\ pgrid[1].cells[p].val.clue_no.kind = "Cross"
                /\ pgrid[1].cells[p].val.clue_no.across = pgrid[1].cells[p].val.clue_no.down
                /\ to_no_spans(pgrid[1].cells[p])
                      = [res |-> "Ok", no |-> Some(pgrid[1].cells[p].val.clue_no.across)]
    /\ ipc # "assertion failed"

\* A grid was drawn that has two cells starting both their words
C30_Witness ==
    /\ ipc = "drawn"
    /\ \E p, q \in sol_cells :
          /\ p # q
          /\ StartsBoth(pgrid[1].cells[p])
          /\ StartsBoth(pgrid[1].cells[q])

=============================================================================
